---------------------------- MODULE Spec2Model ----------------------------
(***************************************************************************)
(* A model of the chainline-js wallet core: the hex codec (utils.js), the  *)
(* transaction serializer and signer (transactions/index.js), the account  *)
(* derivation (wallet.js) and the operations that send what they sign      *)
(* (api.js, chainline.js).                                                 *)
(*                                                                         *)
(* Representation.  A JavaScript string of hex characters is a sequence of *)
(* character codes: 0..15 are the digits '0'..'f', Dot is '.'.  A          *)
(* JavaScript number x >= 0 is a record [int, frac] holding the base-16    *)
(* digits of its integer part (most significant first, no leading zero,    *)
(* <<0>> for zero) and of its fractional part (no trailing zero), so that  *)
(* numbers beyond the range of model integers are exact.  NaN is the       *)
(* record with no digits at all.  A call's outcome is a record whose field *)
(* st tells whether it returned ("ok", the value in val) or threw.         *)
(***************************************************************************)
EXTENDS Integers, Sequences, FiniteSets, TLC

VARIABLES
    mode,      \* which part of the library the run exercises
    cNum,      \* codec: the number handed to num2hexstring / num2VarInt
    cSize,     \* codec: the size argument of num2hexstring
    cHex,      \* codec: what num2hexstring returned (NoValue before the call)
    cVar,      \* codec: what num2VarInt returned (NoValue before the call)
    cBack,     \* codec: what readVarInt returned on a stream holding cVar
    ss,        \* codec: a StringStream object [str, pter]
    ssCall,    \* codec: the last call made on ss: [op, n, before, st, val]
    wKey,      \* wallet: a private key, an array of 32 bytes
    wWIF,      \* wallet: a string offered as a WIF key, with the bytes it encodes
    wCall,     \* wallet: the last call made: [op, arg, ret]
    heap,      \* transactions: the Transaction objects alive, by reference 1..Len
    log,       \* transactions: the signTransaction calls made so far, in order
    txCall,    \* transactions: the last call made: [op, ..., ret]
    gCost,     \* gas: the amount handed to gasCostCeil / fixed8GasCeil
    gCall,     \* gas: the last call made: [op, arg, ret]
    calls,     \* api: the calls in progress, each with its position and locals
    requests,  \* api: the network requests issued so far, in order
    hubConstants  \* api: the module-level Constants object of chainline.js

codecVars == <<cNum, cSize, cHex, cVar, cBack, ss, ssCall>>
walletVars == <<wKey, wWIF, wCall>>
txVars == <<heap, log, txCall>>
gasVars == <<gCost, gCall>>
opsVars == <<calls, requests, hubConstants>>
vars == <<mode, codecVars, walletVars, txVars, gasVars, opsVars>>

\* The outcome of a call: st is "ok" (val is what it returned) or "thrown"; a
\* variable that holds no outcome yet has st = "none".
NoValue == [st |-> "none"]
Ok(v) == [st |-> "ok", val |-> v]

---------------------------------------------------------------------------
(* JavaScript strings and numbers                                          *)

Dot == 16

\* the sign '-' that toString writes before a number below zero
Minus == 18

\* a number below zero carries the field neg
IsNegative(x) == "neg" \in DOMAIN x

Min(a, b) == IF a < b THEN a ELSE b
Max(a, b) == IF a < b THEN b ELSE a

\* '0'.repeat(n) and the like
Repeat(c, n) == [i \in 1..n |-> c]

\* String.prototype.substring(start) with 0 <= start
Substring(s, start) == SubSeq(s, start + 1, Len(s))

\* String.prototype.substr(start, length) with 0 <= start, 0 <= length
Substr(s, start, length) == SubSeq(s, start + 1, Min(start + length, Len(s)))

\* the base-16 digits of a model natural, as Number.prototype.toString(16) writes them
RECURSIVE NatDigits(_)
NatDigits(n) == IF n < 16 THEN <<n>> ELSE Append(NatDigits(n \div 16), n % 16)

\* the JavaScript number with the value of the model natural n
Num(n) == [int |-> NatDigits(n), frac |-> <<>>]

NaN == [int |-> <<>>, frac |-> <<>>]

RECURSIVE StripLeadingZeros(_)
StripLeadingZeros(d) ==
    IF Len(d) > 1 /\ d[1] = 0 THEN StripLeadingZeros(Tail(d)) ELSE d

RECURSIVE StripTrailingZeros(_)
StripTrailingZeros(d) ==
    IF Len(d) > 0 /\ d[Len(d)] = 0 THEN StripTrailingZeros(SubSeq(d, 1, Len(d) - 1)) ELSE d

\* a < b for two digit strings without leading zeros
DigitsLess(a, b) ==
    \/ Len(a) < Len(b)
    \/ /\ Len(a) = Len(b)
       /\ \E i \in 1..Len(a) : a[i] < b[i] /\ \A j \in 1..(i - 1) : a[j] = b[j]

\* x < n and x <= n for a JavaScript number x and a whole number n
NumLess(x, n) == DigitsLess(x.int, n.int)
NumLessEq(x, n) == DigitsLess(x.int, n.int) \/ (x.int = n.int /\ x.frac = <<>>)

\* the value of a digit string as a model natural, capped at cap (cap < 2^24)
RECURSIVE DigitsValueCapped(_, _, _)
DigitsValueCapped(d, acc, cap) ==
    IF d = <<>> THEN acc
    ELSE IF acc * 16 + d[1] >= cap THEN cap
    ELSE DigitsValueCapped(Tail(d), acc * 16 + d[1], cap)

\* Math.floor of a JavaScript number as a model natural, capped at cap
NumValueCapped(x, cap) == DigitsValueCapped(x.int, 0, cap)

\* Number.prototype.toString(16)
toString16(x) ==
    (IF IsNegative(x) THEN <<Minus>> ELSE <<>>)
        \o (IF x.frac = <<>> THEN x.int ELSE x.int \o <<Dot>> \o x.frac)

\* x / Math.pow(2, 32): exact for x < 2^53, the quotient's hex digits are those of x
\* with the point moved eight places to the left
DivPow32(x) ==
    LET padded == Repeat(0, 8) \o x.int
        n == Len(padded)
    IN [int  |-> StripLeadingZeros(SubSeq(padded, 1, n - 8)),
        frac |-> StripTrailingZeros(SubSeq(padded, n - 7, n) \o x.frac)]

\* the longest prefix of s made of hex digits
RECURSIVE HexPrefix(_)
HexPrefix(s) ==
    IF s = <<>> \/ s[1] > 15 THEN <<>> ELSE <<s[1]>> \o HexPrefix(Tail(s))

\* parseInt(s, 16)
parseInt16(s) ==
    LET p == HexPrefix(s)
    IN IF p = <<>> THEN NaN ELSE [int |-> StripLeadingZeros(p), frac |-> <<>>]

---------------------------------------------------------------------------
(* utils.js                                                                *)

\* reverseHex throws on a string of odd length
reverseHexThrows(hex) == Len(hex) % 2 # 0

\* reverseHex: the bytes (pairs of characters) of hex in reverse order
reverseHex(hex) ==
    LET n == Len(hex) \div 2
    IN [i \in 1..(2 * n) |->
            hex[2 * (n - ((i + 1) \div 2)) + (IF i % 2 = 1 THEN 1 ELSE 2)]]

\* num2hexstring(num, size): size is the required width in characters
num2hexstring(num, size) ==
    LET hexstring == toString16(num)
    IN IF Len(hexstring) % size = 0
       THEN hexstring
       ELSE Substring(Repeat(0, size) \o hexstring, Len(hexstring))

\* num2VarInt(num)
num2VarInt(num) ==
    IF NumLess(num, Num(253))
    THEN num2hexstring(num, 2)
    ELSE IF NumLessEq(num, Num(65535))
    THEN <<15, 13>> \o num2hexstring(num, 4)
    ELSE IF NumLessEq(num, [int |-> Repeat(15, 8), frac |-> <<>>])
    THEN <<15, 14>> \o num2hexstring(num, 8)
    ELSE <<15, 15>> \o num2hexstring(num, 8) \o num2hexstring(DivPow32(num), 8)

\* new StringStream(str)
StringStream(str) == [str |-> str, pter |-> 0]

\* StringStream.isEmpty
isEmpty(s) == s.pter >= Len(s.str)

\* StringStream.read(bytes): the outcome of the call, with the stream after it
\* in the field ss.  bytes is a JavaScript number; the pointer is advanced by
\* bytes * 2, kept as a model integer by capping it just beyond the end of the
\* string, where isEmpty and substr no longer tell positions apart.
read(s, bytes) ==
    IF isEmpty(s)
    THEN [st |-> "thrown", val |-> <<>>, ss |-> s]
    ELSE LET n == NumValueCapped(bytes, Len(s.str) + 1)
         IN [st  |-> "ok",
             val |-> Substr(s.str, s.pter, n * 2),
             ss  |-> [s EXCEPT !.pter = Min(s.pter + n * 2, 2 * Len(s.str) + 2)]]

\* the outcome of a call on a stream that threw, or returned v, leaving the
\* stream s
Thrown(s) == [st |-> "thrown", val |-> <<>>, ss |-> s]
Returned(v, s) == [st |-> "ok", val |-> v, ss |-> s]

\* parseInt(reverseHex(r), 16) of what a read returned
ParsedReversed(r) ==
    IF r.st = "thrown" \/ reverseHexThrows(r.val)
    THEN [st |-> "thrown", val |-> NaN, ss |-> r.ss]
    ELSE [st |-> "ok", val |-> parseInt16(reverseHex(r.val)), ss |-> r.ss]

\* the multi-byte branch of readVarInt: parseInt(reverseHex(this.read(bytes)), 16)
readVarIntBody(s, bytes) == ParsedReversed(read(s, Num(bytes)))

\* readVarInt once the marker len is read
VarIntOfMarker(len, s) ==
    IF len = Num(253) THEN readVarIntBody(s, 2)
    ELSE IF len = Num(254) THEN readVarIntBody(s, 4)
    ELSE IF len = Num(255) THEN readVarIntBody(s, 8)
    ELSE [st |-> "ok", val |-> len, ss |-> s]

\* readVarInt after its first read
VarIntAfter(r) ==
    IF r.st = "thrown"
    THEN [st |-> "thrown", val |-> NaN, ss |-> r.ss]
    ELSE VarIntOfMarker(parseInt16(r.val), r.ss)

\* StringStream.readVarInt
readVarInt(s) == VarIntAfter(read(s, Num(1)))

\* readVarBytes once the length is read
VarBytesAfter(l) ==
    IF l.st = "thrown" THEN [st |-> "thrown", val |-> <<>>, ss |-> l.ss]
    ELSE read(l.ss, l.val)

\* StringStream.readVarBytes
readVarBytes(s) == VarBytesAfter(readVarInt(s))

---------------------------------------------------------------------------
(* Bounds of the codec runs                                                *)

MaxSmallNum == 260      \* every number 0..MaxSmallNum is encoded
MaxStreamBytes == 2     \* stream contents hold at most this many bytes
MaxRead == 2            \* read(n) is called with n in 0..MaxRead

\* the sizes num2hexstring is called with in the library (1, 2 and 4 bytes)
HexSizes == {2, 4, 8}

\* the boundary values of the VarInt encoding, and numbers beyond 2^32
VarIntBoundaries ==
    { Num(0), Num(252), Num(253), Num(65535), Num(65536),
      [int |-> Repeat(15, 8), frac |-> <<>>],
      [int |-> <<1>> \o Repeat(0, 8), frac |-> <<>>] }

CodecNums ==
    { Num(n) : n \in 0..MaxSmallNum } \cup VarIntBoundaries
        \cup { Num(4096), Num(65537), [int |-> <<1, 8>> \o Repeat(0, 7), frac |-> <<>>] }

\* the characters a stream under test is made of: 0, 1, 2, d, e, f
StreamChars == {0, 1, 2, 13, 14, 15}

RECURSIVE SeqsUpTo(_, _)
SeqsUpTo(S, n) ==
    IF n = 0 THEN {<<>>}
    ELSE LET shorter == SeqsUpTo(S, n - 1)
         IN shorter \cup { Append(q, c) : q \in { x \in shorter : Len(x) = n - 1 }, c \in S }

IdleCodec ==
    /\ cNum = NoValue /\ cSize = NoValue /\ cHex = NoValue
    /\ cVar = NoValue /\ cBack = NoValue

IdleStream == ss = NoValue /\ ssCall = NoValue

IdleWallet == wKey = NoValue /\ wWIF = NoValue /\ wCall = NoValue

IdleTx == heap = NoValue /\ log = NoValue /\ txCall = NoValue

IdleGas == gCost = NoValue /\ gCall = NoValue

IdleOps == calls = NoValue /\ requests = NoValue /\ hubConstants = NoValue

---------------------------------------------------------------------------
(* Runs of the number encoders: a caller picks a number, encodes it with   *)
(* num2hexstring and num2VarInt, and reads the VarInt back from a stream.  *)

InitVarInt ==
    /\ mode = "varint"
    /\ cNum \in CodecNums
    /\ cSize \in HexSizes
    /\ cHex = NoValue /\ cVar = NoValue /\ cBack = NoValue
    /\ IdleStream /\ IdleWallet /\ IdleTx /\ IdleGas /\ IdleOps

CallNum2hexstring ==
    /\ mode = "varint" /\ cHex = NoValue
    /\ cHex' = Ok(num2hexstring(cNum, cSize))
    /\ UNCHANGED <<mode, cNum, cSize, cVar, cBack, ss, ssCall, walletVars, txVars, gasVars, opsVars>>

CallNum2VarInt ==
    /\ mode = "varint" /\ cVar = NoValue
    /\ cVar' = Ok(num2VarInt(cNum))
    /\ UNCHANGED <<mode, cNum, cSize, cHex, cBack, ss, ssCall, walletVars, txVars, gasVars, opsVars>>

CallReadVarIntBack ==
    /\ mode = "varint" /\ cVar # NoValue /\ cBack = NoValue
    /\ cBack' = LET r == readVarInt(StringStream(cVar.val)) IN [st |-> r.st, val |-> r.val]
    /\ UNCHANGED <<mode, cNum, cSize, cHex, cVar, ss, ssCall, walletVars, txVars, gasVars, opsVars>>

NextVarInt == CallNum2hexstring \/ CallNum2VarInt \/ CallReadVarIntBack

SpecVarInt == InitVarInt /\ [][NextVarInt]_vars

---------------------------------------------------------------------------
(* Runs of a StringStream: a stream is made over some string and read with *)
(* read, readVarInt and readVarBytes until a call throws.                  *)

InitStream ==
    /\ mode = "stream"
    /\ ss \in { StringStream(str) :
                    str \in { q \in SeqsUpTo(StreamChars, 2 * MaxStreamBytes) : Len(q) % 2 = 0 } }
    /\ ssCall = [op |-> "new", n |-> 0, before |-> ss, st |-> "ok"]
    /\ IdleCodec /\ IdleWallet /\ IdleTx /\ IdleGas /\ IdleOps

StreamLive == mode = "stream" /\ ssCall.st # "thrown"

CallRead(n) ==
    /\ StreamLive
    /\ LET r == read(ss, Num(n))
       IN /\ ss' = r.ss
          /\ ssCall' = [op |-> "read", n |-> n, before |-> ss, st |-> r.st, val |-> r.val]
    /\ UNCHANGED <<mode, cNum, cSize, cHex, cVar, cBack, walletVars, txVars, gasVars, opsVars>>

CallReadVarInt ==
    /\ StreamLive
    /\ LET r == readVarInt(ss)
       IN /\ ss' = r.ss
          /\ ssCall' = [op |-> "readVarInt", n |-> 0, before |-> ss, st |-> r.st, val |-> r.val]
    /\ UNCHANGED <<mode, cNum, cSize, cHex, cVar, cBack, walletVars, txVars, gasVars, opsVars>>

CallReadVarBytes ==
    /\ StreamLive
    /\ LET r == readVarBytes(ss)
       IN /\ ss' = r.ss
          /\ ssCall' = [op |-> "readVarBytes", n |-> 0, before |-> ss, st |-> r.st, val |-> r.val]
    /\ UNCHANGED <<mode, cNum, cSize, cHex, cVar, cBack, walletVars, txVars, gasVars, opsVars>>

NextStream == (\E n \in 0..MaxRead : CallRead(n)) \/ CallReadVarInt \/ CallReadVarBytes

SpecStream == InitStream /\ [][NextStream]_vars

---------------------------------------------------------------------------
(* The primitives the library takes from its dependencies.  The hashes     *)
(* (crypto-js) are deterministic functions from byte strings to digests of *)
(* the real width; the curve (ecurve, elliptic) is a short Weierstrass     *)
(* curve with a = -3 like secp256r1, over a field small enough to search.  *)

\* the sum of (s[i] + 1) * weight(i) over lo..hi, modulo 65521
RECURSIVE WeightedSum(_, _, _)
WeightedSum(s, lo, hi) ==
    IF lo > hi THEN 0
    ELSE IF lo = hi THEN ((s[lo] + 1) * ((lo * lo * 37 + lo * 1009 + 11) % 65521)) % 65521
    ELSE LET mid == (lo + hi) \div 2
         IN (WeightedSum(s, lo, mid) + WeightedSum(s, mid + 1, hi)) % 65521

\* a digest of nbytes bytes (as hex) of the hex string s
Digest(s, salt, nbytes) ==
    LET h == (WeightedSum(s, 1, Len(s)) + 131 * Len(s) + salt) % 65521
        byte(j) == ((h + 7) * (2 * j + 1) + (h \div 256) + j * j) % 256
    IN [i \in 1..(2 * nbytes) |->
            IF i % 2 = 1 THEN byte((i + 1) \div 2) \div 16 ELSE byte(i \div 2) % 16]

\* CryptoJS.SHA256(CryptoJS.enc.Hex.parse(hex)).toString()
SHA256(hex) == Digest(hex, 256, 32)

\* CryptoJS.RIPEMD160(CryptoJS.enc.Hex.parse(hex)).toString()
RIPEMD160(hex) == Digest(hex, 160, 20)

CurveP == 251
CurveA == 248
CurveB == 26
CurveN == 223
CurveG == [inf |-> FALSE, x |-> 2, y |-> 84]
Infinity == [inf |-> TRUE, x |-> 0, y |-> 0]

ModInv(a, m) == CHOOSE b \in 1..(m - 1) : (a * b) % m = 1

PointAdd(P, Q) ==
    IF P.inf THEN Q
    ELSE IF Q.inf THEN P
    ELSE IF P.x = Q.x /\ (P.y + Q.y) % CurveP = 0 THEN Infinity
    ELSE LET l == IF P.x = Q.x
                  THEN ((3 * P.x * P.x + CurveA) * ModInv((2 * P.y) % CurveP, CurveP)) % CurveP
                  ELSE (((Q.y - P.y) % CurveP) * ModInv((Q.x - P.x) % CurveP, CurveP)) % CurveP
             x3 == (l * l - P.x - Q.x) % CurveP
         IN [inf |-> FALSE, x |-> x3, y |-> (l * (P.x - x3) - P.y) % CurveP]

\* Point.multiply(k)
RECURSIVE PointMul(_, _)
PointMul(P, k) ==
    IF k = 0 THEN Infinity
    ELSE LET half == PointMul(P, k \div 2)
             dbl == PointAdd(half, half)
         IN IF k % 2 = 1 THEN PointAdd(dbl, P) ELSE dbl

\* whether (x, y) satisfies the curve equation
OnCurve(x, y) == (y * y) % CurveP = (x * x * x + CurveA * x + CurveB) % CurveP

\* base^e modulo m
RECURSIVE ModPow(_, _, _)
ModPow(base, e, m) ==
    IF e = 0 THEN 1 % m
    ELSE LET h == ModPow(base, e \div 2, m)
         IN IF e % 2 = 1 THEN (((h * h) % m) * base) % m ELSE (h * h) % m

\* the value of the characters lo..hi of a hex string as a number modulo m
\* (m * m within the model's integers)
RECURSIVE HexModRange(_, _, _, _)
HexModRange(hex, lo, hi, m) ==
    IF lo > hi THEN 0
    ELSE IF lo = hi THEN hex[lo] % m
    ELSE LET mid == (lo + hi) \div 2
         IN (HexModRange(hex, lo, mid, m) * ModPow(16, hi - mid, m)
                + HexModRange(hex, mid + 1, hi, m)) % m

\* BigInteger.fromBuffer of the bytes of hex, as a number modulo m
HexMod(hex, m) == HexModRange(hex, 1, Len(hex), m)

\* a model natural below 256^n as a big-endian array of n bytes
ToBytesBE(v, n) == [i \in 1..n |-> IF i < n - 3 THEN 0 ELSE (v \div (256 ^ (n - i))) % 256]

\* Point.getEncoded(true): 02 or 03 by the parity of y, then x on 32 bytes;
\* the point at infinity is the single byte 00
getEncoded(P) ==
    IF P.inf THEN <<0>>
    ELSE <<IF P.y % 2 = 0 THEN 2 ELSE 3>> \o ToBytesBE(P.x, 32)

\* Curve.pointFromX(isOdd, x): y is a square root candidate of x^3 + ax + b,
\* p - y taken when its parity is not the one asked for; the library does not
\* check that the candidate squares to x^3 + ax + b
pointFromX(isOdd, x) ==
    LET alpha == (x * x * x + CurveA * x + CurveB) % CurveP
        beta == ModPow(alpha, (CurveP + 1) \div 4, CurveP)
    IN [inf |-> FALSE, x |-> x,
        y |-> IF (beta % 2 = 0) = isOdd THEN CurveP - beta ELSE beta]

---------------------------------------------------------------------------
(* base-x (base58) and the byte/hex conversions of utils.js.  A byte array *)
(* is a sequence of 0..255; a base58 string is the sequence of its         *)
(* characters' indices in the alphabet ('1' is 0), any other character     *)
(* being the code NotBase58.                                               *)

NotBase58 == 58

\* hexstring2ab: a last odd character is dropped
hexstring2ab(str) ==
    [i \in 1..(Len(str) \div 2) |-> str[2 * i - 1] * 16 + str[2 * i]]

\* ab2hexstring
ab2hexstring(arr) ==
    [i \in 1..(2 * Len(arr)) |->
        IF i % 2 = 1 THEN arr[(i + 1) \div 2] \div 16 ELSE arr[i \div 2] % 16]

\* the number of leading zeros of a sequence
LeadingZeros(q) ==
    IF \A i \in 1..Len(q) : q[i] = 0 THEN Len(q)
    ELSE (CHOOSE i \in 1..Len(q) : q[i] # 0 /\ \A j \in 1..(i - 1) : q[j] = 0) - 1

\* A big number is held as big-endian limbs of 16 bits and divided or
\* multiplied by 58 * 58, two base58 digits at a time.
Limb == 65536
Radix2 == 58 * 58

\* the limbs of a byte string
ToLimbs(bytes) ==
    LET b == IF Len(bytes) % 2 = 1 THEN <<0>> \o bytes ELSE bytes
    IN [i \in 1..(Len(b) \div 2) |-> b[2 * i - 1] * 256 + b[2 * i]]

\* the bytes of a limb string
FromLimbs(limbs) ==
    [i \in 1..(2 * Len(limbs)) |->
        IF i % 2 = 1 THEN limbs[(i + 1) \div 2] \div 256 ELSE limbs[i \div 2] % 256]

\* limbs i.. divided by Radix2, carry being the remainder left by limbs ..i-1
RECURSIVE DivModLimbs(_, _, _)
DivModLimbs(limbs, i, carry) ==
    IF i > Len(limbs) THEN [q |-> <<>>, r |-> carry]
    ELSE LET cur == carry * Limb + limbs[i]
         IN IF cur < 0 THEN [q |-> <<>>, r |-> 0]
            ELSE LET rest == DivModLimbs(limbs, i + 1, cur % Radix2)
                 IN [q |-> <<cur \div Radix2>> \o rest.q, r |-> rest.r]

\* the base-58 digits of the number the limbs hold, in pairs (none for zero)
RECURSIVE Base58Pairs(_)
Base58Pairs(limbs) ==
    LET l == SubSeq(limbs, LeadingZeros(limbs) + 1, Len(limbs))
    IN IF l = <<>> THEN <<>>
       ELSE LET dm == DivModLimbs(l, 1, 0)
            IN Base58Pairs(dm.q) \o <<dm.r \div 58, dm.r % 58>>

\* base58.encode
base58encode(bytes) ==
    LET pairs == Base58Pairs(ToLimbs(bytes))
    IN Repeat(0, LeadingZeros(bytes)) \o SubSeq(pairs, LeadingZeros(pairs) + 1, Len(pairs))

\* limbs ..i times Radix2 plus carry
RECURSIVE MulAddLimbs(_, _, _)
MulAddLimbs(limbs, i, carry) ==
    IF i = 0 THEN (IF carry = 0 THEN <<>> ELSE <<carry>>)
    ELSE LET v == limbs[i] * Radix2 + carry
         IN IF v < 0 THEN <<>>
            ELSE Append(MulAddLimbs(limbs, i - 1, v \div Limb), v % Limb)

\* the number the first j pairs of characters of a base58 string of even length
\* hold, as limbs
RECURSIVE Base58Value(_, _)
Base58Value(str, j) ==
    IF j = 0 THEN <<>>
    ELSE LET sofar == Base58Value(str, j - 1)
         IN MulAddLimbs(sofar, Len(sofar), str[2 * j - 1] * 58 + str[2 * j])

\* base58.decode: throws on a character outside the alphabet
base58decode(str) ==
    IF \E i \in 1..Len(str) : str[i] >= NotBase58
    THEN [st |-> "thrown", val |-> <<>>]
    ELSE LET even == IF Len(str) % 2 = 1 THEN <<0>> \o str ELSE str
             b256 == FromLimbs(Base58Value(even, Len(even) \div 2))
         IN Ok(Repeat(0, LeadingZeros(str)) \o SubSeq(b256, LeadingZeros(b256) + 1, Len(b256)))

\* the bytes of the wallet script before the public key (wallet revision a6e6bc6a...),
\* ending with the push of 0x21 = 33 bytes
WalletScriptHead ==
    << 5, 15, 12, 5, 6, 11, 6, 10, 5, 1, 5, 2, 7, 10, 12, 4, 6, 10, 5, 1, 12,
      3, 4, 12, 0, 9, 7, 3, 6, 9, 6, 7, 6, 14, 6, 1, 7, 4, 7, 5, 7, 2, 6, 5,
      6, 1, 7, 5, 7, 5, 4, 12, 2, 1 >>

\* the bytes of the wallet script after the public key
WalletScriptTail ==
    << 6, 10, 5, 2, 5, 2, 7, 10, 12, 4, 4, 12, 2, 0, 14, 7, 2, 13, 2, 8, 6, 9,
      7, 9, 14, 14, 6, 12, 11, 1, 0, 3, 14, 6, 5, 13, 15, 13, 13, 15, 11, 2,
      14, 3, 8, 4, 1, 0, 0, 11, 8, 13, 1, 4, 8, 14, 7, 7, 5, 8, 13, 14, 4, 2,
      14, 4, 1, 6, 8, 11, 7, 1, 7, 9, 2, 12, 6, 0, 6, 10, 5, 3, 5, 2, 7, 10,
      12, 4, 6, 1, 6, 1, 6, 8, 1, 6, 4, 14, 6, 5, 6, 15, 2, 14, 5, 2, 7, 5, 6,
      14, 7, 4, 6, 9, 6, 13, 6, 5, 2, 14, 4, 7, 6, 5, 7, 4, 5, 4, 7, 2, 6, 9,
      6, 7, 6, 7, 6, 5, 7, 2, 6, 1, 6, 1, 9, 12, 5, 1, 8, 6, 0, 0, 9, 12, 6,
      3, 0, 7, 0, 0, 0, 0, 6, 12, 7, 5, 6, 6, 6, 10, 5, 1, 12, 3, 6, 10, 5, 2,
      12, 3, 6, 1, 6, 1, 7, 12, 6, 5, 14, 13, 0, 1, 0, 0, 9, 14, 6, 3, 0, 8,
      0, 0, 0, 0, 6, 12, 7, 5, 6, 6, 6, 1, 6, 1, 6, 8, 2, 9, 5, 3, 7, 9, 7, 3,
      7, 4, 6, 5, 6, 13, 2, 14, 4, 5, 7, 8, 6, 5, 6, 3, 7, 5, 7, 4, 6, 9, 6,
      15, 6, 14, 4, 5, 6, 14, 6, 7, 6, 9, 6, 14, 6, 5, 2, 14, 4, 7, 6, 5, 7,
      4, 5, 3, 6, 3, 7, 2, 6, 9, 7, 0, 7, 4, 4, 3, 6, 15, 6, 14, 7, 4, 6, 1,
      6, 9, 6, 14, 6, 5, 7, 2, 6, 10, 5, 4, 5, 2, 7, 10, 12, 4, 6, 1, 6, 1, 6,
      8, 2, 13, 5, 3, 7, 9, 7, 3, 7, 4, 6, 5, 6, 13, 2, 14, 4, 5, 7, 8, 6, 5,
      6, 3, 7, 5, 7, 4, 6, 9, 6, 15, 6, 14, 4, 5, 6, 14, 6, 7, 6, 9, 6, 14, 6,
      5, 2, 14, 4, 7, 6, 5, 7, 4, 4, 5, 7, 8, 6, 5, 6, 3, 7, 5, 7, 4, 6, 9, 6,
      14, 6, 7, 5, 3, 6, 3, 7, 2, 6, 9, 7, 0, 7, 4, 4, 8, 6, 1, 7, 3, 6, 8, 6,
      10, 5, 5, 5, 2, 7, 10, 12, 4, 6, 10, 5, 4, 12, 3, 7, 6, 0, 0, 9, 14, 6,
      3, 0, 5, 0, 0, 6, 1, 6, 1, 6, 1, 6, 8, 1, 10, 4, 14, 6, 5, 6, 15, 2, 14,
      5, 4, 7, 2, 6, 1, 6, 14, 7, 3, 6, 1, 6, 3, 7, 4, 6, 9, 6, 15, 6, 14, 2,
      14, 4, 7, 6, 5, 7, 4, 4, 15, 7, 5, 7, 4, 7, 0, 7, 5, 7, 4, 7, 3, 6, 10,
      5, 6, 5, 2, 7, 10, 12, 4, 0, 0, 6, 10, 5, 13, 5, 2, 7, 10, 12, 4, 6, 10,
      5, 6, 12, 3, 6, 10, 5, 7, 5, 2, 7, 10, 12, 4, 0, 0, 6, 10, 5, 8, 5, 2,
      7, 10, 12, 4, 6, 10, 5, 8, 12, 3, 6, 10, 5, 7, 12, 3, 12, 0, 10, 2, 6,
      3, 9, 7, 0, 0, 6, 10, 5, 7, 12, 3, 6, 10, 5, 8, 12, 3, 12, 3, 6, 10, 5,
      9, 5, 2, 7, 10, 12, 4, 6, 10, 5, 9, 12, 3, 6, 10, 5, 10, 5, 2, 7, 10,
      12, 4, 6, 10, 5, 10, 12, 3, 6, 1, 6, 1, 6, 8, 1, 8, 4, 14, 6, 5, 6, 15,
      2, 14, 4, 15, 7, 5, 7, 4, 7, 0, 7, 5, 7, 4, 2, 14, 4, 7, 6, 5, 7, 4, 5,
      3, 6, 3, 7, 2, 6, 9, 7, 0, 7, 4, 4, 8, 6, 1, 7, 3, 6, 8, 6, 10, 5, 5,
      12, 3, 6, 1, 9, 12, 0, 0, 9, 12, 6, 3, 4, 12, 0, 0, 6, 10, 5, 10, 12, 3,
      6, 1, 6, 1, 6, 8, 1, 5, 4, 14, 6, 5, 6, 15, 2, 14, 4, 15, 7, 5, 7, 4, 7,
      0, 7, 5, 7, 4, 2, 14, 4, 7, 6, 5, 7, 4, 4, 1, 7, 3, 7, 3, 6, 5, 7, 4, 4,
      9, 6, 4, 6, 10, 5, 3, 12, 3, 6, 1, 9, 12, 0, 0, 9, 12, 6, 3, 2, 6, 0, 0,
      6, 10, 5, 13, 12, 3, 6, 10, 5, 10, 12, 3, 6, 1, 6, 1, 6, 8, 1, 3, 4, 14,
      6, 5, 6, 15, 2, 14, 4, 15, 7, 5, 7, 4, 7, 0, 7, 5, 7, 4, 2, 14, 4, 7, 6,
      5, 7, 4, 5, 6, 6, 1, 6, 12, 7, 5, 6, 5, 9, 3, 6, 10, 5, 13, 5, 2, 7, 10,
      12, 4, 6, 1, 6, 10, 5, 8, 12, 3, 5, 1, 9, 3, 6, 10, 5, 8, 5, 2, 7, 10,
      12, 4, 6, 2, 6, 4, 15, 15, 6, 1, 6, 10, 5, 13, 12, 3, 0, 0, 9, 4, 8, 13,
      0, 0, 10, 1, 6, 3, 8, 11, 0, 0, 6, 10, 5, 6, 12, 3, 0, 0, 12, 3, 6, 1,
      6, 1, 6, 8, 1, 8, 4, 14, 6, 5, 6, 15, 2, 14, 4, 15, 7, 5, 7, 4, 7, 0, 7,
      5, 7, 4, 2, 14, 4, 7, 6, 5, 7, 4, 5, 3, 6, 3, 7, 2, 6, 9, 7, 0, 7, 4, 4,
      8, 6, 1, 7, 3, 6, 8, 6, 10, 5, 7, 5, 2, 7, 10, 12, 4, 4, 12, 1, 3, 7, 7,
      6, 1, 6, 12, 6, 12, 6, 5, 7, 4, 5, 15, 7, 2, 6, 5, 7, 1, 7, 5, 6, 5, 7,
      3, 7, 4, 5, 4, 7, 8, 4, 15, 7, 5, 7, 4, 5, 4, 12, 5, 7, 6, 0, 0, 6, 10,
      5, 1, 12, 3, 12, 4, 7, 6, 5, 1, 6, 10, 5, 2, 12, 3, 12, 4, 7, 6, 5, 2,
      6, 10, 5, 7, 12, 3, 7, 6, 4, 12, 0, 9, 7, 2, 6, 5, 6, 3, 6, 9, 7, 0, 6,
      9, 6, 5, 6, 14, 7, 4, 6, 1, 7, 5, 7, 5, 12, 4, 7, 6, 5, 3, 6, 10, 5, 13,
      12, 3, 6, 1, 12, 4, 6, 1, 6, 1, 7, 12, 6, 7, 3, 0, 10, 2, 11, 0, 4, 1,
      3, 9, 13, 7, 1, 4, 5, 6, 4, 14, 11, 9, 5, 6, 8, 9, 6, 4, 9, 8, 6, 1, 6,
      12, 15, 8, 10, 12, 12, 8, 13, 11, 6, 10, 5, 8, 5, 2, 7, 10, 12, 4, 6,
      10, 5, 8, 12, 3, 6, 12, 7, 5, 6, 6, 5, 1, 6, 12, 7, 5, 6, 6, 6, 1, 5, 3,
      12, 5, 6, 11, 6, 10, 0, 0, 5, 2, 7, 10, 12, 4, 6, 10, 5, 1, 5, 2, 7, 10,
      12, 4, 6, 10, 0, 0, 12, 3, 6, 10, 5, 1, 12, 3, 6, 1, 10, 12, 6, 12, 7,
      5, 6, 6, 6, 1 >>

---------------------------------------------------------------------------
(* wallet.js.  A JavaScript value is a record tagged by t: a "number" n, a *)
(* "string" s, a "boolean" b, an "object" (an Account), or "thrown" for a  *)
(* call that threw instead of returning.                                   *)

JsNumber(n) == [t |-> "number", n |-> n]
JsString(s) == [t |-> "string", s |-> s]
JsThrown == [t |-> "thrown"]

\* Array.prototype.slice(from, to) / Buffer.slice(from, to), 0 <= from <= to
Slice(arr, from, to) == SubSeq(arr, from + 1, Min(to, Len(arr)))

\* the first four bytes of SHA256(SHA256(bytes)), as hex
Checksum(bytes) == ab2hexstring(Slice(hexstring2ab(SHA256(SHA256(ab2hexstring(bytes)))), 0, 4))

\* createChainLineWalletScript(publicKeyEncoded)
createChainLineWalletScript(publicKeyEncoded) ==
    WalletScriptHead \o publicKeyEncoded \o WalletScriptTail

\* WIF.encode(version, privateKey, compressed = true) of the wif package:
\* base58check of version, the 32 key bytes and the flag 01
WIFencode(version, privateKey) ==
    IF Len(privateKey) # 32 THEN JsThrown
    ELSE LET payload == <<version>> \o privateKey \o <<1>>
         IN JsString(base58encode(payload \o hexstring2ab(Checksum(payload))))

\* getWIFFromPrivateKey(privateKey), privateKey an array of bytes
getWIFFromPrivateKey(privateKey) ==
    LET hexKey == ab2hexstring(privateKey)
    IN WIFencode(128, hexstring2ab(hexKey))

\* getHash(signatureScript)
getHash(signatureScript) == RIPEMD160(SHA256(signatureScript))

\* getPrivateKeyFromWIF as it would be without the comparison of the checksum
getPrivateKeyFromWIFUnchecked(wif) ==
    LET decoded == base58decode(wif)
        data == decoded.val
    IN IF decoded.st = "thrown" THEN JsThrown
       ELSE IF Len(data) # 38 \/ data[1] # 128 \/ data[34] # 1
       THEN JsNumber(-1)
       ELSE JsString(ab2hexstring(Slice(data, 1, 33)))

\* getPrivateKeyFromWIF(wif)
getPrivateKeyFromWIF(wif) ==
    LET decoded == base58decode(wif)
        data == decoded.val
    IN IF decoded.st = "thrown" THEN JsThrown
       ELSE IF Len(data) # 38 \/ data[1] # 128 \/ data[34] # 1
       THEN JsNumber(-1)
       ELSE LET dataSha2 == SHA256(SHA256(ab2hexstring(Slice(data, 0, Len(data) - 4))))
                dataShaBuffer == hexstring2ab(dataSha2)
            IN IF ab2hexstring(Slice(dataShaBuffer, 0, 4))
                    # ab2hexstring(Slice(data, Len(data) - 4, Len(data)))
               THEN JsNumber(-2)
               ELSE JsString(ab2hexstring(Slice(data, 1, 33)))

\* getPublicKey(privateKey, true): the encoded point, an array of bytes
getPublicKey(privateKey) ==
    getEncoded(PointMul(CurveG, HexMod(ab2hexstring(hexstring2ab(privateKey)), CurveN)))

\* toAddress(ProgramHash), ProgramHash an array of bytes
toAddress(ProgramHash) ==
    IF Len(ProgramHash) # 20 THEN JsThrown
    ELSE LET data == <<23>> \o ProgramHash
             scriptHashShaBuffer == hexstring2ab(SHA256(SHA256(ab2hexstring(data))))
         IN JsString(base58encode(data \o Slice(scriptHashShaBuffer, 0, 4)))

\* verifyPublicKeyEncoded as it would be if it did not look at the first byte
\* but compared parities only
verifyPublicKeyEncodedAnyPrefix(publicKeyEncoded) ==
    LET publicKeyArray == hexstring2ab(publicKeyEncoded)
    IN IF publicKeyArray = <<>> THEN [t |-> "boolean", b |-> FALSE]
       ELSE IF Len(publicKeyArray) # 33 THEN JsThrown
       ELSE LET curvePt == pointFromX(publicKeyArray[1] % 2 = 1,
                                       HexMod(ab2hexstring(Tail(publicKeyArray)), CurveP))
                curvePtY == ToBytesBE(curvePt.y, 32)
            IN [t |-> "boolean", b |-> curvePtY[32] % 2 = publicKeyArray[1] % 2]

\* verifyPublicKeyEncoded(publicKeyEncoded): true, false, or thrown when
\* Point.decodeFrom asserts the length of a compressed point
verifyPublicKeyEncoded(publicKeyEncoded) ==
    LET publicKeyArray == hexstring2ab(publicKeyEncoded)
    IN IF publicKeyArray = <<>> \/ (publicKeyArray[1] # 2 /\ publicKeyArray[1] # 3)
       THEN [t |-> "boolean", b |-> FALSE]
       ELSE IF Len(publicKeyArray) # 33 THEN JsThrown
       ELSE LET curvePt == pointFromX(publicKeyArray[1] = 3,
                                       HexMod(ab2hexstring(Tail(publicKeyArray)), CurveP))
                curvePtY == ToBytesBE(curvePt.y, 32)
            IN [t |-> "boolean",
                b |-> \/ (publicKeyArray[1] = 2 /\ curvePtY[32] % 2 = 0)
                      \/ (publicKeyArray[1] = 3 /\ curvePtY[32] % 2 = 1)]

\* addContract(txData, sign, publicKeyEncoded)
addContract(txData, sign, publicKeyEncoded) ==
    LET signatureScript == createChainLineWalletScript(publicKeyEncoded)
    IN txData \o <<0, 1>> \o <<4, 1>> \o <<4, 0>> \o sign \o <<2, 3>> \o signatureScript

\* getAccountFromPublicKey(publicKeyEncoded, privateKey); privateKey is a
\* JavaScript value, [t |-> "undefined"] when the argument is left out
getAccountFromPublicKey(publicKeyEncoded, privateKey) ==
    LET verified == verifyPublicKeyEncoded(publicKeyEncoded)
    IN IF verified.t = "thrown" THEN JsThrown
       ELSE IF ~verified.b THEN JsNumber(-1)
       ELSE LET publicKeyHash == getHash(publicKeyEncoded)
                script == createChainLineWalletScript(publicKeyEncoded)
                programHash == getHash(script)
                address == toAddress(hexstring2ab(programHash))
            IN IF address.t = "thrown" THEN JsThrown
               ELSE [t |-> "object",
                     privateKey |-> privateKey,
                     publicKeyEncoded |-> publicKeyEncoded,
                     publicKeyHash |-> publicKeyHash,
                     programHash |-> programHash,
                     address |-> address.s]

\* getAccountFromPrivateKey(privateKey), privateKey a JavaScript value;
\* privateKey.length throws when privateKey is undefined
getAccountFromPrivateKey(privateKey) ==
    IF privateKey.t = "undefined" THEN JsThrown
    ELSE IF privateKey.t # "string" \/ Len(privateKey.s) # 64
    THEN JsNumber(-1)
    ELSE LET publicKeyEncoded == getPublicKey(privateKey.s)
         IN getAccountFromPublicKey(ab2hexstring(publicKeyEncoded), privateKey)

\* getAccountFromWIFKey as it would be if it took the key from the bytes
\* 0..31 of the decoded string, the version byte among them
getAccountFromWIFKeyWithVersion(WIFKey) ==
    LET decoded == base58decode(WIFKey)
    IN IF decoded.st = "thrown" THEN JsThrown
       ELSE getAccountFromPrivateKey(JsString(ab2hexstring(Slice(decoded.val, 0, 32))))

\* getAccountFromWIFKey(WIFKey)
getAccountFromWIFKey(WIFKey) ==
    LET privateKey == getPrivateKeyFromWIF(WIFKey)
    IN IF privateKey.t = "thrown" THEN JsThrown
       ELSE IF privateKey.t = "number" /\ (privateKey.n = -1 \/ privateKey.n = -2)
       THEN privateKey
       ELSE getAccountFromPrivateKey(privateKey)

\* addressToScriptHash as it would be if it cut the bytes 0..20, the version
\* byte included
addressToScriptHashWithVersion(address) ==
    LET decoded == base58decode(address)
    IN IF decoded.st = "thrown" THEN JsThrown
       ELSE JsString(ab2hexstring(Slice(decoded.val, 0, 20)))

\* addressToScriptHash(address)
addressToScriptHash(address) ==
    LET decoded == base58decode(address)
    IN IF decoded.st = "thrown" THEN JsThrown
       ELSE JsString(ab2hexstring(Slice(decoded.val, 1, 21)))

\* getScriptHashFromAddress(address): reverseHex throws on an odd length, which
\* a cut of whole bytes never has
getScriptHashFromAddress(address) ==
    LET decoded == base58decode(address)
    IN IF decoded.st = "thrown" THEN JsThrown
       ELSE LET hash == ab2hexstring(decoded.val)
            IN JsString(reverseHex(Substr(hash, 2, 40)))

\* verifyAddress(address): true, false, or thrown when base58 or toAddress
\* throws
verifyAddress(address) ==
    LET decoded == base58decode(address)
        programHash == decoded.val
    IN IF decoded.st = "thrown" THEN JsThrown
       ELSE IF Checksum(Slice(programHash, 0, 21)) # ab2hexstring(Slice(programHash, 21, 25))
       THEN [t |-> "boolean", b |-> FALSE]
       ELSE LET back == toAddress(Slice(programHash, 1, 21))
            IN IF back.t = "thrown" THEN JsThrown
               ELSE [t |-> "boolean", b |-> back.s = address]

\* the deterministic nonce generator of elliptic (HMAC-DRBG seeded with the
\* key and the message): the candidate nonce of the given round, in 1..n-1
NonceCandidate(privateKey, msgHash, round) ==
    1 + HexMod(Digest(privateKey \o msgHash \o <<round>>, 6979, 4), CurveN - 1)

\* the number of the key handed to elliptic: new BN(key, 16).umod(n)
PrivateScalar(privateKey) == HexMod(privateKey, CurveN)

\* one round of EC.sign: r is the abscissa of nonce * G, s = (e + r d) / nonce
SignRound(e, d, nonce) ==
    LET kp == PointMul(CurveG, nonce)
        r == IF kp.inf THEN 0 ELSE kp.x % CurveN
        s == (ModInv(nonce, CurveN) * ((e + r * d) % CurveN)) % CurveN
    IN [r |-> r, s |-> s]

\* the nonce rounds EC.sign may need before r and s are both non-zero
SignRounds == 0..15

\* signatureData signing the data themselves in place of their SHA-256
signatureDataUnhashed(data, privateKey) ==
    LET e == HexMod(data, CurveN)
        d == PrivateScalar(privateKey)
        good(i) == LET sg == SignRound(e, d, NonceCandidate(privateKey, data, i))
                   IN sg.r # 0 /\ sg.s # 0
        round == CHOOSE i \in SignRounds : good(i) /\ \A j \in SignRounds : j < i => ~good(j)
        sig == SignRound(e, d, NonceCandidate(privateKey, data, round))
    IN ab2hexstring(ToBytesBE(sig.r, 32) \o ToBytesBE(sig.s, 32))

\* signatureData(data, privateKey): r and s on 32 bytes each, as hex
signatureData(data, privateKey) ==
    LET msgHash == SHA256(data)
        e == HexMod(msgHash, CurveN)
        d == PrivateScalar(privateKey)
        good(i) == LET sg == SignRound(e, d, NonceCandidate(privateKey, msgHash, i))
                   IN sg.r # 0 /\ sg.s # 0
        round == CHOOSE i \in SignRounds : good(i) /\ \A j \in SignRounds : j < i => ~good(j)
        sig == SignRound(e, d, NonceCandidate(privateKey, msgHash, round))
    IN ab2hexstring(ToBytesBE(sig.r, 32) \o ToBytesBE(sig.s, 32))

---------------------------------------------------------------------------
(* chainline.js: the wallet script a client builds for a public key, in    *)
(* the revision wallet-0.3 of src/chainline.js and in the revision         *)
(* wallet-1.0.                                                             *)

\* Constants.HUB_SCRIPT_HASH (hub-0.3)
HUB_SCRIPT_HASH ==
    << 5, 12, 13, 7, 15, 14, 1, 3, 12, 0, 7, 6, 2, 4, 3, 2, 11, 15, 1, 5, 1, 1,
      9, 1, 11, 9, 4, 8, 12, 0, 4, 3, 6, 13, 3, 3, 5, 4, 12, 4 >>

\* the template of generateWalletScript before ${publicKeyHex}
generateWalletScriptHead ==
    << 5, 15, 12, 5, 6, 11, 6, 10, 5, 1, 5, 2, 7, 10, 12, 4, 6, 10, 5, 1, 12,
      3, 4, 12, 0, 9, 7, 3, 6, 9, 6, 7, 6, 14, 6, 1, 7, 4, 7, 5, 7, 2, 6, 5,
      6, 1, 7, 5, 7, 5, 4, 12, 2, 1 >>

\* the template between ${publicKeyHex} and ${Constants.HUB_SCRIPT_HASH}
generateWalletScriptBody ==
    << 6, 10, 5, 2, 5, 2, 7, 10, 12, 4, 4, 12, 2, 0, 14, 7, 2, 13, 2, 8, 6, 9,
      7, 9, 14, 14, 6, 12, 11, 1, 0, 3, 14, 6, 5, 13, 15, 13, 13, 15, 11, 2,
      14, 3, 8, 4, 1, 0, 0, 11, 8, 13, 1, 4, 8, 14, 7, 7, 5, 8, 13, 14, 4, 2,
      14, 4, 1, 6, 8, 11, 7, 1, 7, 9, 2, 12, 6, 0, 6, 10, 5, 3, 5, 2, 7, 10,
      12, 4, 6, 10, 5, 1, 12, 3, 6, 10, 5, 2, 12, 3, 6, 1, 6, 1, 7, 12, 6, 5,
      10, 10, 0, 1, 6, 1, 6, 1, 15, 1, 6, 1, 6, 1, 6, 8, 2, 9, 5, 3, 7, 9, 7,
      3, 7, 4, 6, 5, 6, 13, 2, 14, 4, 5, 7, 8, 6, 5, 6, 3, 7, 5, 7, 4, 6, 9,
      6, 15, 6, 14, 4, 5, 6, 14, 6, 7, 6, 9, 6, 14, 6, 5, 2, 14, 4, 7, 6, 5,
      7, 4, 5, 3, 6, 3, 7, 2, 6, 9, 7, 0, 7, 4, 4, 3, 6, 15, 6, 14, 7, 4, 6,
      1, 6, 9, 6, 14, 6, 5, 7, 2, 6, 10, 5, 4, 5, 2, 7, 10, 12, 4, 6, 1, 6, 1,
      6, 8, 2, 13, 5, 3, 7, 9, 7, 3, 7, 4, 6, 5, 6, 13, 2, 14, 4, 5, 7, 8, 6,
      5, 6, 3, 7, 5, 7, 4, 6, 9, 6, 15, 6, 14, 4, 5, 6, 14, 6, 7, 6, 9, 6, 14,
      6, 5, 2, 14, 4, 7, 6, 5, 7, 4, 4, 5, 7, 8, 6, 5, 6, 3, 7, 5, 7, 4, 6, 9,
      6, 14, 6, 7, 5, 3, 6, 3, 7, 2, 6, 9, 7, 0, 7, 4, 4, 8, 6, 1, 7, 3, 6, 8,
      6, 10, 5, 5, 5, 2, 7, 10, 12, 4, 6, 10, 5, 4, 12, 3, 6, 1, 6, 1, 6, 8,
      1, 10, 4, 14, 6, 5, 6, 15, 2, 14, 5, 4, 7, 2, 6, 1, 6, 14, 7, 3, 6, 1,
      6, 3, 7, 4, 6, 9, 6, 15, 6, 14, 2, 14, 4, 7, 6, 5, 7, 4, 4, 15, 7, 5, 7,
      4, 7, 0, 7, 5, 7, 4, 7, 3, 6, 10, 5, 6, 5, 2, 7, 10, 12, 4, 0, 0, 6, 10,
      5, 13, 5, 2, 7, 10, 12, 4, 6, 10, 5, 6, 12, 3, 6, 10, 5, 7, 5, 2, 7, 10,
      12, 4, 0, 0, 6, 10, 5, 8, 5, 2, 7, 10, 12, 4, 6, 10, 5, 8, 12, 3, 6, 10,
      5, 7, 12, 3, 12, 0, 10, 2, 6, 3, 9, 2, 0, 0, 6, 10, 5, 7, 12, 3, 6, 10,
      5, 8, 12, 3, 12, 3, 6, 10, 5, 9, 5, 2, 7, 10, 12, 4, 6, 10, 5, 9, 12, 3,
      6, 10, 5, 10, 5, 2, 7, 10, 12, 4, 6, 10, 5, 10, 12, 3, 6, 1, 6, 1, 6, 8,
      1, 8, 4, 14, 6, 5, 6, 15, 2, 14, 4, 15, 7, 5, 7, 4, 7, 0, 7, 5, 7, 4, 2,
      14, 4, 7, 6, 5, 7, 4, 5, 3, 6, 3, 7, 2, 6, 9, 7, 0, 7, 4, 4, 8, 6, 1, 7,
      3, 6, 8, 6, 10, 5, 5, 12, 3, 8, 7, 6, 3, 4, 10, 0, 0, 6, 10, 5, 10, 12,
      3, 6, 1, 6, 1, 6, 8, 1, 5, 4, 14, 6, 5, 6, 15, 2, 14, 4, 15, 7, 5, 7, 4,
      7, 0, 7, 5, 7, 4, 2, 14, 4, 7, 6, 5, 7, 4, 4, 1, 7, 3, 7, 3, 6, 5, 7, 4,
      4, 9, 6, 4, 6, 10, 5, 3, 12, 3, 8, 7, 9, 1, 6, 3, 2, 6, 0, 0, 6, 10, 5,
      13, 12, 3, 6, 10, 5, 10, 12, 3, 6, 1, 6, 1, 6, 8, 1, 3, 4, 14, 6, 5, 6,
      15, 2, 14, 4, 15, 7, 5, 7, 4, 7, 0, 7, 5, 7, 4, 2, 14, 4, 7, 6, 5, 7, 4,
      5, 6, 6, 1, 6, 12, 7, 5, 6, 5, 9, 3, 6, 10, 5, 13, 5, 2, 7, 10, 12, 4,
      6, 1, 6, 10, 5, 8, 12, 3, 5, 1, 9, 3, 6, 10, 5, 8, 5, 2, 7, 10, 12, 4,
      6, 2, 6, 9, 15, 15, 6, 1, 6, 10, 5, 13, 12, 3, 0, 0, 9, 4, 8, 13, 0, 0,
      10, 1, 6, 3, 5, 10, 0, 0, 4, 12, 1, 3, 7, 7, 6, 1, 6, 12, 6, 12, 6, 5,
      7, 4, 5, 15, 7, 2, 6, 5, 7, 1, 7, 5, 6, 5, 7, 3, 7, 4, 5, 4, 7, 8, 4,
      15, 7, 5, 7, 4, 5, 2, 12, 5, 7, 6, 0, 0, 6, 10, 5, 5, 12, 3, 7, 6, 4,
      12, 1, 3, 6, 5, 7, 8, 6, 5, 6, 3, 7, 5, 7, 4, 6, 9, 6, 14, 6, 7, 5, 3,
      6, 3, 7, 2, 6, 9, 7, 0, 7, 4, 4, 8, 6, 1, 7, 3, 6, 8, 6, 1, 7, 5, 7, 5,
      12, 4, 7, 6, 5, 1, 6, 10, 5, 2, 12, 3, 12, 4, 6, 1, 6, 1, 7, 12, 6, 7 >>

\* the template after ${Constants.HUB_SCRIPT_HASH}
generateWalletScriptTail ==
    << 6, 12, 7, 5, 6, 6, 5, 1, 6, 12, 7, 5, 6, 6, 6, 1, 5, 3, 12, 5, 6, 11, 6,
      10, 0, 0, 5, 2, 7, 10, 12, 4, 6, 10, 5, 1, 5, 2, 7, 10, 12, 4, 6, 10, 0,
      0, 12, 3, 6, 10, 5, 1, 12, 3, 6, 1, 10, 12, 6, 12, 7, 5, 6, 6, 6, 1 >>

\* generateWalletScript(publicKeyHex) (wallet-0.3)
generateWalletScript(publicKeyHex) ==
    generateWalletScriptHead \o publicKeyHex \o generateWalletScriptBody
        \o HUB_SCRIPT_HASH \o generateWalletScriptTail

\* int2hex(mNumber), reverse left false
int2hex(mNumber) ==
    LET h == toString16(mNumber)
    IN IF Len(h) % 2 = 1 THEN <<0>> \o h ELSE h

\* Constants.HUB_SCRIPT_HASH (hub-1.1)
HUB_SCRIPT_HASH_1_1 ==
    << 10, 6, 6, 4, 5, 4, 13, 11, 8, 1, 14, 6, 9, 10, 9, 5, 1, 11, 11, 13, 15,
      5, 0, 13, 9, 4, 11, 2, 6, 13, 3, 10, 4, 5, 11, 8, 5, 8, 1, 14 >>

\* the template of generateWalletScript (wallet-1.0) before
\* ${int2hex(publicKeyHex.length / 2)}
generateWalletScriptHead_1_0 ==
    << 6, 0, 12, 5, 6, 11, 6, 10, 5, 1, 5, 2, 7, 10, 12, 4, 6, 10, 5, 1, 12, 3,
      4, 12, 0, 9, 7, 3, 6, 9, 6, 7, 6, 14, 6, 1, 7, 4, 7, 5, 7, 2, 6, 5, 6,
      1, 7, 5, 7, 5, 4, 12 >>

\* the template between ${publicKeyHex} and ${reverseHex(Constants.HUB_SCRIPT_HASH)}
generateWalletScriptBody_1_0 ==
    << 6, 10, 5, 2, 5, 2, 7, 10, 12, 4, 4, 12, 2, 0, 14, 7, 2, 13, 2, 8, 6, 9,
      7, 9, 14, 14, 6, 12, 11, 1, 11, 7, 14, 6, 5, 13, 15, 13, 13, 15, 11, 2,
      14, 3, 8, 4, 1, 0, 0, 11, 8, 13, 1, 4, 8, 14, 7, 7, 5, 8, 13, 14, 4, 2,
      14, 4, 1, 6, 8, 11, 7, 1, 7, 9, 2, 12, 6, 0, 6, 10, 5, 3, 5, 2, 7, 10,
      12, 4, 6, 10, 5, 1, 12, 3, 6, 10, 5, 2, 12, 3, 6, 1, 6, 1, 7, 12, 6, 5,
      6, 9, 0, 2, 6, 1, 6, 1, 15, 1, 6, 1, 6, 1, 6, 8, 2, 9, 5, 3, 7, 9, 7, 3,
      7, 4, 6, 5, 6, 13, 2, 14, 4, 5, 7, 8, 6, 5, 6, 3, 7, 5, 7, 4, 6, 9, 6,
      15, 6, 14, 4, 5, 6, 14, 6, 7, 6, 9, 6, 14, 6, 5, 2, 14, 4, 7, 6, 5, 7,
      4, 5, 3, 6, 3, 7, 2, 6, 9, 7, 0, 7, 4, 4, 3, 6, 15, 6, 14, 7, 4, 6, 1,
      6, 9, 6, 14, 6, 5, 7, 2, 6, 10, 5, 4, 5, 2, 7, 10, 12, 4, 6, 1, 6, 1, 6,
      8, 2, 13, 5, 3, 7, 9, 7, 3, 7, 4, 6, 5, 6, 13, 2, 14, 4, 5, 7, 8, 6, 5,
      6, 3, 7, 5, 7, 4, 6, 9, 6, 15, 6, 14, 4, 5, 6, 14, 6, 7, 6, 9, 6, 14, 6,
      5, 2, 14, 4, 7, 6, 5, 7, 4, 4, 5, 7, 8, 6, 5, 6, 3, 7, 5, 7, 4, 6, 9, 6,
      14, 6, 7, 5, 3, 6, 3, 7, 2, 6, 9, 7, 0, 7, 4, 4, 8, 6, 1, 7, 3, 6, 8, 6,
      10, 5, 5, 5, 2, 7, 10, 12, 4, 6, 10, 5, 4, 12, 3, 6, 1, 6, 1, 6, 8, 1,
      13, 4, 14, 6, 5, 6, 15, 2, 14, 5, 4, 7, 2, 6, 1, 6, 14, 7, 3, 6, 1, 6,
      3, 7, 4, 6, 9, 6, 15, 6, 14, 2, 14, 4, 7, 6, 5, 7, 4, 5, 2, 6, 5, 6, 6,
      6, 5, 7, 2, 6, 5, 6, 14, 6, 3, 6, 5, 7, 3, 6, 10, 5, 6, 5, 2, 7, 10, 12,
      4, 0, 0, 6, 10, 5, 14, 5, 2, 7, 10, 12, 4, 6, 10, 5, 6, 12, 3, 6, 10, 5,
      7, 5, 2, 7, 10, 12, 4, 0, 0, 6, 10, 5, 8, 5, 2, 7, 10, 12, 4, 6, 10, 5,
      8, 12, 3, 6, 10, 5, 7, 12, 3, 12, 0, 10, 2, 6, 3, 6, 12, 0, 0, 6, 10, 5,
      7, 12, 3, 6, 10, 5, 8, 12, 3, 12, 3, 6, 10, 5, 9, 5, 2, 7, 10, 12, 4, 6,
      10, 5, 9, 12, 3, 6, 10, 5, 10, 5, 2, 7, 10, 12, 4, 6, 10, 5, 10, 12, 3,
      6, 1, 6, 1, 6, 8, 1, 5, 4, 14, 6, 5, 6, 15, 2, 14, 4, 15, 7, 5, 7, 4, 7,
      0, 7, 5, 7, 4, 2, 14, 4, 7, 6, 5, 7, 4, 4, 1, 7, 3, 7, 3, 6, 5, 7, 4, 4,
      9, 6, 4, 6, 10, 5, 3, 12, 3, 8, 7, 9, 1, 6, 3, 2, 6, 0, 0, 6, 10, 5, 14,
      12, 3, 6, 10, 5, 10, 12, 3, 6, 1, 6, 1, 6, 8, 1, 3, 4, 14, 6, 5, 6, 15,
      2, 14, 4, 15, 7, 5, 7, 4, 7, 0, 7, 5, 7, 4, 2, 14, 4, 7, 6, 5, 7, 4, 5,
      6, 6, 1, 6, 12, 7, 5, 6, 5, 9, 3, 6, 10, 5, 14, 5, 2, 7, 10, 12, 4, 6,
      1, 6, 10, 5, 8, 12, 3, 5, 1, 9, 3, 6, 10, 5, 8, 5, 2, 7, 10, 12, 4, 6,
      2, 8, 15, 15, 15, 6, 1, 6, 10, 5, 14, 12, 3, 0, 0, 9, 4, 8, 13, 0, 0,
      10, 1, 6, 3, 3, 12, 0, 1, 6, 10, 5, 4, 12, 3, 6, 1, 6, 1, 6, 8, 1, 10,
      4, 14, 6, 5, 6, 15, 2, 14, 5, 4, 7, 2, 6, 1, 6, 14, 7, 3, 6, 1, 6, 3, 7,
      4, 6, 9, 6, 15, 6, 14, 2, 14, 4, 7, 6, 5, 7, 4, 4, 15, 7, 5, 7, 4, 7, 0,
      7, 5, 7, 4, 7, 3, 6, 10, 5, 7, 5, 2, 7, 10, 12, 4, 6, 10, 5, 7, 12, 3,
      6, 10, 5, 8, 5, 2, 7, 10, 12, 4, 0, 0, 6, 10, 5, 9, 5, 2, 7, 10, 12, 4,
      6, 10, 5, 9, 12, 3, 6, 10, 5, 8, 12, 3, 12, 0, 10, 2, 6, 3, 9, 3, 0, 0,
      6, 10, 5, 8, 12, 3, 6, 10, 5, 9, 12, 3, 12, 3, 6, 10, 5, 10, 5, 2, 7,
      10, 12, 4, 6, 10, 5, 10, 12, 3, 6, 10, 5, 11, 5, 2, 7, 10, 12, 4, 6, 10,
      5, 11, 12, 3, 6, 1, 6, 1, 6, 8, 1, 8, 4, 14, 6, 5, 6, 15, 2, 14, 4, 15,
      7, 5, 7, 4, 7, 0, 7, 5, 7, 4, 2, 14, 4, 7, 6, 5, 7, 4, 5, 3, 6, 3, 7, 2,
      6, 9, 7, 0, 7, 4, 4, 8, 6, 1, 7, 3, 6, 8, 6, 10, 5, 5, 12, 3, 8, 7, 9,
      1, 6, 3, 4, 10, 0, 0, 6, 10, 5, 11, 12, 3, 6, 1, 6, 1, 6, 8, 1, 5, 4,
      14, 6, 5, 6, 15, 2, 14, 4, 15, 7, 5, 7, 4, 7, 0, 7, 5, 7, 4, 2, 14, 4,
      7, 6, 5, 7, 4, 4, 1, 7, 3, 7, 3, 6, 5, 7, 4, 4, 9, 6, 4, 6, 10, 5, 3,
      12, 3, 8, 7, 9, 1, 6, 3, 2, 6, 0, 0, 6, 10, 5, 14, 12, 3, 6, 10, 5, 11,
      12, 3, 6, 1, 6, 1, 6, 8, 1, 3, 4, 14, 6, 5, 6, 15, 2, 14, 4, 15, 7, 5,
      7, 4, 7, 0, 7, 5, 7, 4, 2, 14, 4, 7, 6, 5, 7, 4, 5, 6, 6, 1, 6, 12, 7,
      5, 6, 5, 9, 4, 6, 10, 5, 14, 5, 2, 7, 10, 12, 4, 6, 1, 6, 10, 5, 9, 12,
      3, 5, 1, 9, 3, 6, 10, 5, 9, 5, 2, 7, 10, 12, 4, 6, 2, 6, 8, 15, 15, 6,
      1, 6, 10, 5, 14, 12, 3, 0, 0, 9, 4, 8, 13, 0, 0, 10, 1, 6, 3, 6, 1, 0,
      0, 4, 12, 1, 3, 7, 7, 6, 1, 6, 12, 6, 12, 6, 5, 7, 4, 5, 15, 7, 2, 6, 5,
      7, 1, 7, 5, 6, 5, 7, 3, 7, 4, 5, 4, 7, 8, 4, 15, 7, 5, 7, 4, 5, 3, 12,
      5, 7, 6, 0, 0, 6, 10, 5, 5, 12, 3, 7, 6, 4, 12, 1, 3, 6, 5, 7, 8, 6, 5,
      6, 3, 7, 5, 7, 4, 6, 9, 6, 14, 6, 7, 5, 3, 6, 3, 7, 2, 6, 9, 7, 0, 7, 4,
      4, 8, 6, 1, 7, 3, 6, 8, 6, 1, 7, 5, 7, 5, 12, 4, 7, 6, 5, 1, 6, 10, 5,
      2, 12, 3, 12, 4, 7, 6, 5, 2, 6, 10, 5, 14, 12, 3, 6, 1, 12, 4, 6, 1, 6,
      1, 7, 12, 6, 7 >>

\* the template after ${reverseHex(Constants.HUB_SCRIPT_HASH)}
generateWalletScriptTail_1_0 ==
    << 6, 12, 7, 5, 6, 6, 5, 1, 6, 12, 7, 5, 6, 6, 6, 1, 5, 3, 12, 5, 6, 11, 6,
      10, 0, 0, 5, 2, 7, 10, 12, 4, 6, 10, 5, 1, 5, 2, 7, 10, 12, 4, 6, 10, 0,
      0, 12, 3, 6, 10, 5, 1, 12, 3, 6, 1, 10, 12, 6, 12, 7, 5, 6, 6, 6, 1 >>

\* generateWalletScript(publicKeyHex) (wallet-1.0)
generateWalletScript_1_0(publicKeyHex) ==
    generateWalletScriptHead_1_0 \o int2hex(Num(Len(publicKeyHex) \div 2)) \o publicKeyHex
        \o generateWalletScriptBody_1_0 \o reverseHex(HUB_SCRIPT_HASH_1_1)
        \o generateWalletScriptTail_1_0

---------------------------------------------------------------------------
(* Runs of the wallet: a caller holds a private key, turns it into a WIF   *)
(* string or is handed some other string as a WIF key, and derives keys,   *)
(* accounts and script hashes from what it holds.                          *)

MaxKey == 3

\* the private key of value v, v below 2^31
KeyOf(v) == ToBytesBE(v, 32)

\* private keys: small ones, the curve order (which multiplies G to the
\* point at infinity, as 0 does) and one above it, and one with a high byte
WalletKeys ==
    { KeyOf(v) : v \in (0..MaxKey) \cup {CurveN, CurveN + 2} }
        \cup { <<200>> \o Repeat(0, 30) \o <<9>> }

\* bytes followed by their base58check checksum
WithChecksum(bytes) == bytes \o hexstring2ab(Checksum(bytes))

\* seq with its i-th element replaced by v
Replace(seq, i, v) == [seq EXCEPT ![i] = v]

WIFKinds ==
    { "version", "flag", "short", "long", "zero", "checksum", "key", "char", "empty" }

\* the bytes of a string handed in as a WIF key that getWIFFromPrivateKey did
\* not make: the well-formed 38 bytes of key with one thing wrong
ForeignWIFBytes(key, kind) ==
    LET good == WithChecksum(<<128>> \o key \o <<1>>)
    IN CASE kind = "version" -> WithChecksum(<<129>> \o key \o <<1>>)
         [] kind = "flag" -> WithChecksum(<<128>> \o key \o <<2>>)
         [] kind = "short" -> WithChecksum(<<128>> \o key)
         [] kind = "long" -> WithChecksum(<<128>> \o key \o <<1, 1>>)
         [] kind = "zero" -> WithChecksum(<<0>> \o key \o <<1>>)
         [] kind = "checksum" -> Replace(good, 38, (good[38] + 1) % 256)
         [] kind = "key" -> Replace(good, 33, (good[33] + 1) % 256)
         [] kind = "char" -> good
         [] kind = "empty" -> <<>>

\* the string itself; "char" has a character outside the base58 alphabet
ForeignWIF(key, kind) ==
    LET str == base58encode(ForeignWIFBytes(key, kind))
    IN IF kind = "char" THEN Replace(str, 7, NotBase58) ELSE str

\* an abscissa no point of the curve has
OffCurveX == CHOOSE x \in 0..(CurveP - 1) : \A y \in 0..(CurveP - 1) : ~OnCurve(x, y)

PublicKeyKinds == { "own", "parity", "offcurve", "uncompressed", "short" }

\* strings handed to getAccountFromPublicKey: the encoded public key of key,
\* or one with the other parity, with an abscissa off the curve, with the
\* prefix 04 of an unencoded key, or cut to 32 bytes
PublicKeyOffer(key, kind) ==
    LET own == getPublicKey(ab2hexstring(key))
        body == SubSeq(own, 2, Len(own))
    IN CASE kind = "own" -> ab2hexstring(own)
         [] kind = "parity" -> ab2hexstring(<<5 - own[1]>> \o body)
         [] kind = "offcurve" -> ab2hexstring(<<2>> \o ToBytesBE(OffCurveX, 32))
         [] kind = "uncompressed" -> ab2hexstring(<<4>> \o body)
         [] kind = "short" -> ab2hexstring(SubSeq(own, 1, Len(own) - 1))

\* strings handed to getAccountFromPrivateKey: the key in hex, the key cut to
\* 31 bytes, or nothing
PrivateKeyOffers(key) ==
    { ab2hexstring(key), ab2hexstring(SubSeq(key, 1, 31)), <<>> }

InitWallet ==
    /\ mode = "wallet"
    /\ wKey \in WalletKeys
    /\ wWIF = NoValue
    /\ wCall = [op |-> "none"]
    /\ IdleCodec /\ IdleStream /\ IdleTx /\ IdleGas /\ IdleOps

CallGetWIFFromPrivateKey ==
    /\ mode = "wallet" /\ wWIF = NoValue
    /\ LET ret == getWIFFromPrivateKey(wKey)
       IN /\ wWIF' = [st |-> "encoded", str |-> ret.s,
                      bytes |-> WithChecksum(<<128>> \o wKey \o <<1>>)]
          /\ wCall' = [op |-> "getWIFFromPrivateKey", arg |-> wKey, ret |-> ret]
    /\ UNCHANGED <<mode, codecVars, wKey, txVars, gasVars, opsVars>>

\* the caller is handed a string from elsewhere
OfferWIF(kind) ==
    /\ mode = "wallet" /\ wWIF = NoValue
    /\ wWIF' = [st |-> kind, str |-> ForeignWIF(wKey, kind),
                bytes |-> ForeignWIFBytes(wKey, kind)]
    /\ UNCHANGED <<mode, codecVars, wKey, wCall, txVars, gasVars, opsVars>>

CallGetPrivateKeyFromWIF ==
    /\ mode = "wallet" /\ wWIF # NoValue
    /\ wCall' = [op |-> "getPrivateKeyFromWIF", arg |-> wWIF.str,
                 ret |-> getPrivateKeyFromWIF(wWIF.str)]
    /\ UNCHANGED <<mode, codecVars, wKey, wWIF, txVars, gasVars, opsVars>>

CallGetAccountFromWIFKey ==
    /\ mode = "wallet" /\ wWIF # NoValue
    /\ wCall' = [op |-> "getAccountFromWIFKey", arg |-> wWIF.str,
                 ret |-> getAccountFromWIFKey(wWIF.str)]
    /\ UNCHANGED <<mode, codecVars, wKey, wWIF, txVars, gasVars, opsVars>>

CallGetAccountFromPrivateKey ==
    /\ mode = "wallet" /\ wWIF = NoValue
    /\ \E privateKey \in PrivateKeyOffers(wKey) :
          wCall' = [op |-> "getAccountFromPrivateKey", arg |-> privateKey,
                    ret |-> getAccountFromPrivateKey(JsString(privateKey))]
    /\ UNCHANGED <<mode, codecVars, wKey, wWIF, txVars, gasVars, opsVars>>

CallGetAccountFromPublicKey ==
    /\ mode = "wallet" /\ wWIF = NoValue
    /\ \E kind \in PublicKeyKinds :
          LET publicKeyEncoded == PublicKeyOffer(wKey, kind)
          IN wCall' = [op |-> "getAccountFromPublicKey", arg |-> publicKeyEncoded,
                       kind |-> kind,
                       ret |-> getAccountFromPublicKey(publicKeyEncoded, [t |-> "undefined"])]
    /\ UNCHANGED <<mode, codecVars, wKey, wWIF, txVars, gasVars, opsVars>>

CallVerifyPublicKeyEncoded ==
    /\ mode = "wallet" /\ wWIF = NoValue
    /\ \E kind \in PublicKeyKinds :
          LET publicKeyEncoded == PublicKeyOffer(wKey, kind)
          IN wCall' = [op |-> "verifyPublicKeyEncoded", arg |-> publicKeyEncoded,
                       kind |-> kind, ret |-> verifyPublicKeyEncoded(publicKeyEncoded)]
    /\ UNCHANGED <<mode, codecVars, wKey, wWIF, txVars, gasVars, opsVars>>

\* the last call returned an Account
HoldsAccount ==
    /\ mode = "wallet"
    /\ wCall.op \in { "getAccountFromWIFKey", "getAccountFromPrivateKey",
                      "getAccountFromPublicKey" }
    /\ wCall.ret.t = "object"

CallAddressToScriptHash ==
    /\ HoldsAccount
    /\ wCall' = [op |-> "addressToScriptHash", arg |-> wCall.ret.address,
                 account |-> wCall.ret, from |-> wCall.op,
                 ret |-> addressToScriptHash(wCall.ret.address)]
    /\ UNCHANGED <<mode, codecVars, wKey, wWIF, txVars, gasVars, opsVars>>

CallGetScriptHashFromAddress ==
    /\ HoldsAccount
    /\ wCall' = [op |-> "getScriptHashFromAddress", arg |-> wCall.ret.address,
                 account |-> wCall.ret, from |-> wCall.op,
                 ret |-> getScriptHashFromAddress(wCall.ret.address)]
    /\ UNCHANGED <<mode, codecVars, wKey, wWIF, txVars, gasVars, opsVars>>

AddressKinds ==
    { "own", "checksum", "hash", "short", "long", "trailing", "version", "char", "empty" }

\* the bytes of a string handed in as an address: the 25 bytes of the address
\* of an Account (good), or those bytes with one thing wrong
ForeignAddressBytes(good, kind) ==
    CASE kind = "own" -> good
      [] kind = "checksum" -> Replace(good, 25, (good[25] + 1) % 256)
      [] kind = "hash" -> Replace(good, 10, (good[10] + 1) % 256)
      [] kind = "short" -> WithChecksum(SubSeq(good, 1, 20))
      [] kind = "long" -> WithChecksum(SubSeq(good, 1, 21) \o <<7>>)
      [] kind = "trailing" -> good \o <<0>>
      [] kind = "version" -> WithChecksum(<<0>> \o SubSeq(good, 2, 21))
      [] kind = "char" -> good
      [] kind = "empty" -> <<>>

\* the string itself; "char" has a character outside the base58 alphabet
ForeignAddress(good, kind) ==
    LET str == base58encode(ForeignAddressBytes(good, kind))
    IN IF kind = "char" THEN Replace(str, 7, NotBase58) ELSE str

\* the call made on an address handed in: what the function is given and
\* what it returned
HandedAddressCall(op, kind, address, bytes, ret) ==
    [op |-> op, arg |-> address, bytes |-> bytes, kind |-> kind,
     account |-> wCall.ret, from |-> "handed", ret |-> ret]

CallAddressToScriptHashOf(kind) ==
    /\ HoldsAccount
    /\ LET good == base58decode(wCall.ret.address).val
           address == ForeignAddress(good, kind)
       IN wCall' = HandedAddressCall("addressToScriptHash", kind, address,
                                     ForeignAddressBytes(good, kind),
                                     addressToScriptHash(address))
    /\ UNCHANGED <<mode, codecVars, wKey, wWIF, txVars, gasVars, opsVars>>

CallGetScriptHashFromAddressOf(kind) ==
    /\ HoldsAccount
    /\ LET good == base58decode(wCall.ret.address).val
           address == ForeignAddress(good, kind)
       IN wCall' = HandedAddressCall("getScriptHashFromAddress", kind, address,
                                     ForeignAddressBytes(good, kind),
                                     getScriptHashFromAddress(address))
    /\ UNCHANGED <<mode, codecVars, wKey, wWIF, txVars, gasVars, opsVars>>

CallVerifyAddress(kind) ==
    /\ HoldsAccount
    /\ LET good == base58decode(wCall.ret.address).val
           address == ForeignAddress(good, kind)
       IN wCall' = HandedAddressCall("verifyAddress", kind, address,
                                     ForeignAddressBytes(good, kind),
                                     verifyAddress(address))
    /\ UNCHANGED <<mode, codecVars, wKey, wWIF, txVars, gasVars, opsVars>>

\* generateWalletScript(publicKeyHex) on the public key of the Account held,
\* in one revision of chainline.js or the other
CallGenerateWalletScript(revision) ==
    /\ HoldsAccount
    /\ wCall' = [op |-> "generateWalletScript", arg |-> wCall.ret.publicKeyEncoded,
                 revision |-> revision, account |-> wCall.ret, from |-> wCall.op,
                 ret |-> IF revision = "wallet-0.3"
                         THEN generateWalletScript(wCall.ret.publicKeyEncoded)
                         ELSE generateWalletScript_1_0(wCall.ret.publicKeyEncoded)]
    /\ UNCHANGED <<mode, codecVars, wKey, wWIF, txVars, gasVars, opsVars>>

NextWallet ==
    \/ \E revision \in { "wallet-0.3", "wallet-1.0" } : CallGenerateWalletScript(revision)
    \/ \E kind \in AddressKinds : CallAddressToScriptHashOf(kind)
    \/ \E kind \in AddressKinds : CallGetScriptHashFromAddressOf(kind)
    \/ \E kind \in AddressKinds : CallVerifyAddress(kind)
    \/ CallGetWIFFromPrivateKey
    \/ \E kind \in WIFKinds : OfferWIF(kind)
    \/ CallGetPrivateKeyFromWIF
    \/ CallGetAccountFromWIFKey
    \/ CallGetAccountFromPrivateKey
    \/ CallGetAccountFromPublicKey
    \/ CallVerifyPublicKeyEncoded
    \/ CallAddressToScriptHash
    \/ CallGetScriptHashFromAddress

SpecWallet == InitWallet /\ [][NextWallet]_vars

---------------------------------------------------------------------------
(* transactions/components.js and transactions/exclusive.js.  The two      *)
(* files are named by transactions/index.js but are not among the sources  *)
(* at hand; they are written here after the data model of the              *)
(* specification: an attribute is {usage, data}, an input {prevHash,       *)
(* prevIndex}, an output {assetId, value, scriptHash}, a witness           *)
(* {invocationScript, verificationScript}; integers are little-endian,     *)
(* byte strings of no fixed length carry a VarInt length.  A deserializer  *)
(* takes a stream and gives the outcome of the call, with the stream after *)
(* it in the field ss.  The value of an output is a JavaScript number held *)
(* as its count of 10^-8 units, the whole number that Math.round(num *     *)
(* 100000000) gives.                                                       *)

\* num2fixed8(num)
num2fixed8(num) ==
    LET hexValue == toString16(num)
    IN reverseHex(Substring(Repeat(0, 16) \o hexValue, Len(hexValue)))

\* fixed82num(fixed8)
fixed82num(fixed8) == parseInt16(reverseHex(fixed8))

\* str.length / 2 for a string of whole bytes
HalfLength(str) == Num(Len(str) \div 2)

\* parseInt(stream.read(1), 16)
ParsedAfter(r) ==
    IF r.st = "thrown" THEN [st |-> "thrown", val |-> NaN, ss |-> r.ss]
    ELSE [st |-> "ok", val |-> parseInt16(r.val), ss |-> r.ss]

readByte(s) == ParsedAfter(read(s, Num(1)))

\* parseInt(reverseHex(stream.read(bytes)), 16)
readLittleEndian(s, bytes) == ParsedReversed(read(s, Num(bytes)))

\* An object is deserialized field by field: p is the outcome so far, p.val
\* the object being filled, and Reader reads the next field from the stream.
\* Nothing is read once a read has thrown.
FieldRead(p, field, r) ==
    IF r.st = "thrown" THEN Thrown(r.ss)
    ELSE Returned([p.val EXCEPT ![field] = r.val], r.ss)

Field(p, field, Reader(_)) ==
    IF p.st = "thrown" THEN p ELSE FieldRead(p, field, Reader(p.ss))

serializeTransactionAttribute(attr) ==
    num2hexstring(attr.usage, 2) \o num2VarInt(HalfLength(attr.data)) \o attr.data

deserializeTransactionAttribute(s) ==
    Field(Field(Returned([usage |-> NaN, data |-> <<>>], s),
                "usage", readByte),
          "data", readVarBytes)

serializeTransactionInput(input) ==
    input.prevHash \o reverseHex(num2hexstring(input.prevIndex, 4))

\* serialize.input throws for an object that has no prevIndex: the number
\* handed to num2hexstring is undefined
serializeTransactionInputThrows(input) == "prevIndex" \notin DOMAIN input

deserializeTransactionInput(s) ==
    Field(Field(Returned([prevHash |-> <<>>, prevIndex |-> NaN], s),
                "prevHash", LAMBDA t : read(t, Num(32))),
          "prevIndex", LAMBDA t : readLittleEndian(t, 2))

serializeTransactionOutput(output) ==
    output.assetId \o num2fixed8(output.value) \o output.scriptHash

\* the value is fixed82num(stream.read(8))
deserializeTransactionOutput(s) ==
    Field(Field(Field(Returned([assetId |-> <<>>, value |-> NaN, scriptHash |-> <<>>], s),
                      "assetId", LAMBDA t : read(t, Num(32))),
                "value", LAMBDA t : readLittleEndian(t, 8)),
          "scriptHash", LAMBDA t : read(t, Num(20)))

serializeWitness(witness) ==
    num2VarInt(HalfLength(witness.invocationScript)) \o witness.invocationScript
        \o num2VarInt(HalfLength(witness.verificationScript)) \o witness.verificationScript

deserializeWitness(s) ==
    Field(Field(Returned([invocationScript |-> <<>>, verificationScript |-> <<>>], s),
                "invocationScript", readVarBytes),
          "verificationScript", readVarBytes)

\* the discriminants of the three kinds of transaction
ClaimTransaction == 2
ContractTransaction == 128
InvocationTransaction == 209

\* serialize.attribute, serialize.input, serialize.output, serialize.script
serialize(component, item) ==
    CASE component = "attribute" -> serializeTransactionAttribute(item)
      [] component = "input" -> serializeTransactionInput(item)
      [] component = "output" -> serializeTransactionOutput(item)
      [] component = "script" -> serializeWitness(item)

\* deserialize.attribute, deserialize.input, deserialize.output, deserialize.script
deserialize(component, s) ==
    CASE component = "attribute" -> deserializeTransactionAttribute(s)
      [] component = "input" -> deserializeTransactionInput(s)
      [] component = "output" -> deserializeTransactionOutput(s)
      [] component = "script" -> deserializeWitness(s)

\* for (const item of list) out += serialize[component](item), from the i-th on
RECURSIVE SerializeEach(_, _, _)
SerializeEach(component, list, i) ==
    IF i > Len(list) THEN <<>>
    ELSE serialize(component, list[i]) \o SerializeEach(component, list, i + 1)

\* exclusive.serialize[tx.type](tx): the claims of a Claim as a list of inputs;
\* nothing for a Contract; the script of an Invocation and, from version 1
\* on, its gas
serializeExclusiveData(tx) ==
    IF tx.type = Num(ClaimTransaction)
    THEN num2VarInt(Num(Len(tx.exclusive.claims)))
            \o SerializeEach("input", tx.exclusive.claims, 1)
    ELSE IF tx.type = Num(InvocationTransaction)
    THEN num2VarInt(HalfLength(tx.exclusive.script)) \o tx.exclusive.script
            \o (IF NumLess(tx.version, Num(1)) THEN <<>> ELSE num2fixed8(tx.exclusive.gas))
    ELSE <<>>

\* exclusive.serialize[tx.type] is undefined for a type that is none of the
\* three: calling it throws
serializeExclusiveDataThrows(tx) ==
    tx.type \notin { Num(ClaimTransaction), Num(ContractTransaction),
                     Num(InvocationTransaction) }

\* the items of a list with v put before them
Prepended(v, rest) ==
    IF rest.st = "thrown" THEN rest ELSE Returned(<<v>> \o rest.val, rest.ss)

\* for (let i = 0; i < length; i++) list.push(deserialize[component](ss)), from
\* the i-th round on: the items pushed, or thrown as soon as a round throws.
\* A round on an exhausted stream throws, so the rounds beyond the length of
\* the string need no counting.
RECURSIVE DeserializeEach(_, _, _, _)
RECURSIVE DeserializeRest(_, _, _, _)
DeserializeEach(component, s, length, i) ==
    IF i >= NumValueCapped(length, Len(s.str) + 1) THEN Returned(<<>>, s)
    ELSE DeserializeRest(component, deserialize(component, s), length, i)

\* the rounds after the i-th, which gave item
DeserializeRest(component, item, length, i) ==
    IF item.st = "thrown" THEN Thrown(item.ss)
    ELSE Prepended(item.val, DeserializeEach(component, item.ss, length, i + 1))

\* the rounds, length being what readVarInt gave
DeserializeCounted(component, length) ==
    IF length.st = "thrown" THEN Thrown(length.ss)
    ELSE DeserializeEach(component, length.ss, length.val, 0)

\* const length = ss.readVarInt(), then the rounds
DeserializeList(component, s) == DeserializeCounted(component, readVarInt(s))

\* the gas of an Invocation: absent from the stream below version 1, the
\* version being the second byte of the stream's string
readGas(s) ==
    IF NumLess(parseInt16(Substr(s.str, 2, 2)), Num(1)) THEN Returned(Num(0), s)
    ELSE readLittleEndian(s, 8)

\* exclusive.deserialize[type](ss).  A type that is none of the three has
\* no entry: the call throws.
deserializeExclusiveData(type, s) ==
    IF type = Num(ClaimTransaction)
    THEN Field(Returned([claims |-> <<>>], s),
               "claims", LAMBDA t : DeserializeList("input", t))
    ELSE IF type = Num(InvocationTransaction)
    THEN Field(Field(Returned([script |-> <<>>, gas |-> NaN], s),
                     "script", readVarBytes),
               "gas", readGas)
    ELSE IF type = Num(ContractTransaction) THEN Returned(<<>>, s)
    ELSE Thrown(s)

---------------------------------------------------------------------------
(* transactions/index.js.  A Transaction object is a record of type,       *)
(* version (JavaScript numbers), attributes, inputs, outputs, scripts      *)
(* (lists) and exclusive, the record of the fields only its kind has.      *)
(* Objects live in a heap, a list indexed by reference, so that a function *)
(* that changes the object it is handed differs from one that returns      *)
(* another object.                                                         *)

\* the part of serializeTransaction that is written whatever signed is
UnsignedPart(tx) ==
    num2hexstring(tx.type, 2)
        \o num2hexstring(tx.version, 2)
        \o serializeExclusiveData(tx)
        \o num2VarInt(Num(Len(tx.attributes)))
        \o SerializeEach("attribute", tx.attributes, 1)
        \o num2VarInt(Num(Len(tx.inputs)))
        \o SerializeEach("input", tx.inputs, 1)
        \o num2VarInt(Num(Len(tx.outputs)))
        \o SerializeEach("output", tx.outputs, 1)

\* serializeTransaction(tx, signed) throws where it calls
\* serialize.exclusiveData[tx.type](tx) or serialize.input(input)
serializeTransactionThrows(tx) ==
    \/ serializeExclusiveDataThrows(tx)
    \/ \E i \in 1..Len(tx.inputs) : serializeTransactionInputThrows(tx.inputs[i])

\* serializeTransaction as it would be if it wrote the scripts whatever signed is
serializeTransactionWithScripts(tx, signed) ==
    IF Len(tx.scripts) > 0
    THEN UnsignedPart(tx) \o num2VarInt(Num(Len(tx.scripts)))
            \o SerializeEach("script", tx.scripts, 1)
    ELSE UnsignedPart(tx)

\* serializeTransaction(tx, signed)
serializeTransaction(tx, signed) ==
    IF signed /\ Len(tx.scripts) > 0
    THEN UnsignedPart(tx) \o num2VarInt(Num(Len(tx.scripts)))
            \o SerializeEach("script", tx.scripts, 1)
    ELSE UnsignedPart(tx)

\* const ss = new StringStream(data); let tx = {}, with the lists it is given
\* before they are filled
StartDeserialize(data) ==
    Returned([type |-> NaN, version |-> NaN, attributes |-> <<>>, inputs |-> <<>>,
              outputs |-> <<>>, scripts |-> <<>>, exclusive |-> <<>>],
             StringStream(data))

\* const exclusiveData = deserialize.exclusiveData[tx.type](ss), assigned to
\* the object at the end
ReadExclusiveData(p) ==
    IF p.st = "thrown" THEN p
    ELSE FieldRead(p, "exclusive", deserializeExclusiveData(p.val.type, p.ss))

\* the items read are pushed to tx[list]
Pushed(p, list, items) ==
    IF items.st = "thrown" THEN Thrown(items.ss)
    ELSE Returned([p.val EXCEPT ![list] = @ \o items.val], items.ss)

\* const length = ss.readVarInt()
\* for (let i = 0; i < length; i++) tx[list].push(deserialize[component](ss))
ReadList(p, component, list) ==
    IF p.st = "thrown" THEN p ELSE Pushed(p, list, DeserializeList(component, p.ss))

\* if (!ss.isEmpty()) { ... tx.scripts.push(deserialize.script(ss)) }
ReadScripts(p) ==
    IF p.st = "thrown" \/ isEmpty(p.ss) THEN p ELSE ReadList(p, "script", "scripts")

\* deserializeTransaction as it would be if it took a type that is none of
\* the three for a Contract, which has no fields of its own
deserializeTransactionAnyKind(data) ==
    ReadScripts(
        ReadList(
            ReadList(
                ReadList(
                    Field(Field(StartDeserialize(data), "type", readByte),
                          "version", readByte),
                    "attribute", "inputs"),
                "input", "inputs"),
            "output", "outputs"))

\* deserializeTransaction(data): the Transaction object made (in val), or
\* thrown.  The attributes read are pushed to tx.inputs.
deserializeTransaction(data) ==
    ReadScripts(
        ReadList(
            ReadList(
                ReadList(
                    ReadExclusiveData(
                        Field(Field(StartDeserialize(data), "type", readByte),
                              "version", readByte)),
                    "attribute", "inputs"),
                "input", "inputs"),
            "output", "outputs"))

\* the text 'undefined', nine characters that are no hex digits
NotHex == 17
UndefinedText == Repeat(NotHex, 9)

\* the witness as it would be with the script the client builds for the
\* public key (generateWalletScript) in place of the wallet's
WitnessWithClientScript(tx, privateKey, signed) ==
    LET account == getAccountFromPrivateKey(JsString(privateKey))
    IN [invocationScript |->
            <<4, 0>> \o signatureData(serializeTransaction(tx, signed), privateKey),
        verificationScript |->
            generateWalletScript(IF account.t = "object"
                                 THEN account.publicKeyEncoded
                                 ELSE UndefinedText)]

\* the witness signTransaction makes of a transaction and a private key
Witness(tx, privateKey, signed) ==
    LET account == getAccountFromPrivateKey(JsString(privateKey))
    IN [invocationScript |->
            <<4, 0>> \o signatureData(serializeTransaction(tx, signed), privateKey),
        verificationScript |->
            createChainLineWalletScript(IF account.t = "object"
                                        THEN account.publicKeyEncoded
                                        ELSE UndefinedText)]

\* signTransaction as it would be if it signed the transaction with the
\* witnesses it holds
signTransactionOverScripts(h, transaction, privateKey) ==
    [heap |-> [h EXCEPT ![transaction].scripts =
                            Append(@, Witness(h[transaction], privateKey, TRUE))],
     ret |-> transaction]

\* signTransaction as it would be if it left its argument alone and returned
\* a signed copy
signTransactionOfCopy(h, transaction, privateKey) ==
    [heap |-> Append(h, [h[transaction] EXCEPT !.scripts =
                            Append(@, Witness(h[transaction], privateKey, FALSE))]),
     ret |-> Len(h) + 1]

\* signTransaction as it would be if the witnesses were kept in one
\* Transaction object shared by all calls, the first one made
signTransactionOfShared(h, transaction, privateKey) ==
    [heap |-> [h EXCEPT ![1].scripts =
                            Append(@, Witness(h[transaction], privateKey, FALSE))],
     ret |-> 1]

\* signTransaction(transaction, privateKey) on the heap h, transaction being
\* a reference: the heap after the call and the reference returned
signTransaction(h, transaction, privateKey) ==
    [heap |-> [h EXCEPT ![transaction].scripts =
                            Append(@, Witness(h[transaction], privateKey, FALSE))],
     ret |-> transaction]

\* getTransactionHash as it would be if it hashed the transaction with its
\* witnesses
getTransactionHashSigned(transaction) ==
    reverseHex(SHA256(SHA256(serializeTransaction(transaction, TRUE))))

\* getTransactionHash(transaction)
getTransactionHash(transaction) ==
    LET txString == serializeTransaction(transaction, FALSE)
        hash == SHA256(SHA256(txString))
    IN reverseHex(hash)

\* signTransaction as it would be if it threw for an unknown type only
signTransactionThrowsOnType(transaction, privateKey) ==
    serializeTransactionThrows(transaction)

\* signTransaction(transaction, privateKey) throws, before it touches
\* transaction.scripts, when serializeTransaction throws or when privateKey
\* (a JavaScript value) is undefined: elliptic has no key to sign with, and
\* getAccountFromPrivateKey reads privateKey.length
signTransactionThrows(transaction, privateKey) ==
    \/ serializeTransactionThrows(transaction)
    \/ privateKey.t = "undefined"
    \/ getAccountFromPrivateKey(privateKey).t = "thrown"

\* the characters of a private key
KeyText(privateKey) ==
    IF privateKey.t = "string" THEN privateKey.s ELSE UndefinedText

---------------------------------------------------------------------------
(* Runs of the transaction functions: a caller builds a Transaction        *)
(* object, serializes it with and without its witnesses, deserializes what *)
(* it serialized, and signs it with one private key after another.         *)

MaxAttributes == 1     \* a transaction is built with at most this many attributes
MaxInputs == 1         \* ... inputs
MaxOutputs == 1        \* ... outputs
MaxSigns == 2          \* signTransaction is called at most this many times
MaxObjects == 2        \* deserializeTransaction is called while the heap is below this

\* a hash of n bytes, every byte being b
HashOf(b, n) == ab2hexstring(Repeat(b, n))

TxAttributes ==
    { [usage |-> Num(240), data |-> <<10, 11, 12, 13>>],
      [usage |-> Num(32), data |-> HashOf(7, 20)] }

TxInputs == { [prevHash |-> HashOf(161, 32), prevIndex |-> Num(1)] }

TxOutputs ==
    { [assetId |-> HashOf(197, 32), value |-> Num(150000000), scriptHash |-> HashOf(35, 20)] }

\* type, version and the fields of the kind
TxKinds ==
    { [type |-> Num(ClaimTransaction), version |-> Num(0),
       exclusive |-> [claims |-> <<[prevHash |-> HashOf(18, 32), prevIndex |-> Num(0)]>>]],
      [type |-> Num(ContractTransaction), version |-> Num(0), exclusive |-> <<>>],
      [type |-> Num(InvocationTransaction), version |-> Num(0),
       exclusive |-> [script |-> <<0, 0, 12, 1>>, gas |-> Num(0)]],
      [type |-> Num(InvocationTransaction), version |-> Num(1),
       exclusive |-> [script |-> <<0, 0, 12, 1>>, gas |-> Num(100000000)]] }

\* the private keys transactions are signed with: keys that have an account
SignKeys == { ab2hexstring(KeyOf(v)) : v \in {2, 5} }

InitTx ==
    /\ mode = "tx"
    /\ \E kind \in TxKinds,
          attributes \in SeqsUpTo(TxAttributes, MaxAttributes),
          inputs \in SeqsUpTo(TxInputs, MaxInputs),
          outputs \in SeqsUpTo(TxOutputs, MaxOutputs) :
            heap = << [type |-> kind.type, version |-> kind.version,
                       attributes |-> attributes, inputs |-> inputs,
                       outputs |-> outputs, scripts |-> <<>>,
                       exclusive |-> kind.exclusive] >>
    /\ log = <<>>
    /\ txCall = [op |-> "none"]
    /\ IdleCodec /\ IdleStream /\ IdleWallet /\ IdleGas /\ IdleOps

\* serializeTransaction(tx, signed) on the object the caller built
CallSerializeTransaction(signed) ==
    /\ mode = "tx"
    /\ txCall' = [op |-> "serializeTransaction", tx |-> heap[1], signed |-> signed,
                  ret |-> serializeTransaction(heap[1], signed)]
    /\ UNCHANGED <<mode, codecVars, gasVars, opsVars, walletVars, heap, log>>

\* deserializeTransaction(data) on the string just serialized; the object it
\* makes is new in the heap
CallDeserializeTransaction ==
    /\ mode = "tx" /\ txCall.op = "serializeTransaction" /\ Len(heap) < MaxObjects
    /\ LET r == deserializeTransaction(txCall.ret)
       IN /\ heap' = IF r.st = "ok" THEN Append(heap, r.val) ELSE heap
          /\ txCall' = [op |-> "deserializeTransaction", data |-> txCall.ret,
                        of |-> txCall.tx, signed |-> txCall.signed,
                        st |-> r.st, ret |-> IF r.st = "ok" THEN Len(heap) + 1 ELSE 0]
    /\ UNCHANGED <<mode, codecVars, gasVars, opsVars, walletVars, log>>

\* signTransaction(transaction, privateKey) on the object the caller built
CallSignTransaction(privateKey) ==
    /\ mode = "tx" /\ Len(log) < MaxSigns
    /\ LET r == signTransaction(heap, 1, privateKey)
       IN /\ heap' = r.heap
          /\ log' = Append(log, [transaction |-> 1, privateKey |-> privateKey,
                                 before |-> heap[1].scripts])
          /\ txCall' = [op |-> "signTransaction", transaction |-> 1,
                        privateKey |-> privateKey, before |-> heap, ret |-> r.ret]
    /\ UNCHANGED <<mode, codecVars, gasVars, opsVars, walletVars>>

\* getTransactionHash(transaction) on the object the caller built
CallGetTransactionHash ==
    /\ mode = "tx"
    /\ txCall' = [op |-> "getTransactionHash", tx |-> heap[1],
                  ret |-> getTransactionHash(heap[1])]
    /\ UNCHANGED <<mode, codecVars, gasVars, opsVars, walletVars, heap, log>>

NextTx ==
    \/ CallGetTransactionHash
    \/ \E signed \in BOOLEAN : CallSerializeTransaction(signed)
    \/ CallDeserializeTransaction
    \/ \E privateKey \in SignKeys : CallSignTransaction(privateKey)

SpecTx == InitTx /\ [][NextTx]_vars

---------------------------------------------------------------------------
(* Runs of the transaction functions on what they may not be able to       *)
(* handle: a caller holds a Transaction object whose type may be none of   *)
(* the three, and an Account made of a private key or of a public key      *)
(* alone; it serializes the object, deserializes a string that starts with *)
(* the type, and signs the object with the private key of the Account.     *)

\* types that are none of the three
UnknownTypes == { 0, 127, 129, 255 }

\* type, version and the fields of the kind; a transaction of an unknown
\* type has no fields of its own
KindsTried ==
    TxKinds \cup { [type |-> Num(t), version |-> Num(0), exclusive |-> <<>>] :
                       t \in UnknownTypes }

\* a serialized transaction that starts with the type of tx: what
\* serializeTransaction writes of tx, or of tx as a Contract with the type
\* written over the first byte
WireOf(tx) ==
    IF serializeTransactionThrows(tx)
    THEN num2hexstring(tx.type, 2)
            \o Substring(serializeTransaction([tx EXCEPT !.type = Num(ContractTransaction)],
                                              FALSE), 2)
    ELSE serializeTransaction(tx, FALSE)

InitTxErrors ==
    /\ mode = "txerr"
    /\ \E kind \in KindsTried,
          attributes \in SeqsUpTo(TxAttributes, MaxAttributes),
          inputs \in SeqsUpTo(TxInputs, MaxInputs),
          outputs \in SeqsUpTo(TxOutputs, MaxOutputs) :
            heap = << [type |-> kind.type, version |-> kind.version,
                       attributes |-> attributes, inputs |-> inputs,
                       outputs |-> outputs, scripts |-> <<>>,
                       exclusive |-> kind.exclusive] >>
    /\ log = <<>>
    /\ txCall = [op |-> "none"]
    /\ wKey \in { hexstring2ab(privateKey) : privateKey \in SignKeys }
    /\ wWIF = NoValue
    /\ wCall = [op |-> "none"]
    /\ IdleCodec /\ IdleStream /\ IdleGas /\ IdleOps

\* getAccountFromPublicKey(publicKeyEncoded), the second argument left out
CallGetAccountFromPublicKeyAlone ==
    /\ mode = "txerr"
    /\ LET publicKeyEncoded == ab2hexstring(getPublicKey(ab2hexstring(wKey)))
       IN wCall' = [op |-> "getAccountFromPublicKey", arg |-> publicKeyEncoded,
                    ret |-> getAccountFromPublicKey(publicKeyEncoded, [t |-> "undefined"])]
    /\ UNCHANGED <<mode, codecVars, gasVars, opsVars, wKey, wWIF, txVars>>

\* getAccountFromPrivateKey(privateKey) on the key held
CallGetAccountFromPrivateKeyHeld ==
    /\ mode = "txerr"
    /\ wCall' = [op |-> "getAccountFromPrivateKey", arg |-> ab2hexstring(wKey),
                 ret |-> getAccountFromPrivateKey(JsString(ab2hexstring(wKey)))]
    /\ UNCHANGED <<mode, codecVars, gasVars, opsVars, wKey, wWIF, txVars>>

\* signTransaction(transaction, account.privateKey) on the object the caller
\* built, account being the Account the last wallet call returned
CallSignTransactionOfAccount ==
    /\ mode = "txerr" /\ wCall.op # "none" /\ wCall.ret.t = "object"
    /\ heap[1].scripts = <<>>
    /\ LET privateKey == wCall.ret.privateKey
       IN IF signTransactionThrows(heap[1], privateKey)
          THEN /\ heap' = heap
               /\ txCall' = [op |-> "signTransaction", transaction |-> 1,
                             privateKey |-> privateKey, before |-> heap,
                             st |-> "thrown", ret |-> 0]
          ELSE LET r == signTransaction(heap, 1, KeyText(privateKey))
               IN /\ heap' = r.heap
                  /\ txCall' = [op |-> "signTransaction", transaction |-> 1,
                                privateKey |-> privateKey, before |-> heap,
                                st |-> "ok", ret |-> r.ret]
    /\ UNCHANGED <<mode, codecVars, gasVars, opsVars, walletVars, log>>

\* serializeTransaction(tx, signed) on the object the caller built
CallSerializeTransactionOfType(signed) ==
    /\ mode = "txerr"
    /\ txCall' = IF serializeTransactionThrows(heap[1])
                 THEN [op |-> "serializeTransaction", tx |-> heap[1], signed |-> signed,
                       st |-> "thrown", ret |-> <<>>]
                 ELSE [op |-> "serializeTransaction", tx |-> heap[1], signed |-> signed,
                       st |-> "ok", ret |-> serializeTransaction(heap[1], signed)]
    /\ UNCHANGED <<mode, codecVars, gasVars, opsVars, walletVars, heap, log>>

\* deserializeTransaction(data) on a string that starts with the type of the
\* object the caller built; the object it makes is new in the heap
CallDeserializeTransactionOfType ==
    /\ mode = "txerr" /\ Len(heap) < MaxObjects
    /\ LET data == WireOf(heap[1])
           r == deserializeTransaction(data)
       IN /\ heap' = IF r.st = "ok" THEN Append(heap, r.val) ELSE heap
          /\ txCall' = [op |-> "deserializeTransaction", data |-> data,
                        before |-> heap, st |-> r.st,
                        ret |-> IF r.st = "ok" THEN Len(heap) + 1 ELSE 0]
    /\ UNCHANGED <<mode, codecVars, gasVars, opsVars, walletVars, log>>

NextTxErrors ==
    \/ CallGetAccountFromPublicKeyAlone
    \/ CallGetAccountFromPrivateKeyHeld
    \/ CallSignTransactionOfAccount
    \/ \E signed \in BOOLEAN : CallSerializeTransactionOfType(signed)
    \/ CallDeserializeTransactionOfType

SpecTxErrors == InitTxErrors /\ [][NextTxErrors]_vars

---------------------------------------------------------------------------
(* Runs of a transaction over the wire: a caller builds a Transaction      *)
(* object, signs it some times, serializes it with its witnesses,          *)
(* deserializes the string and serializes the object made of it again.     *)

MaxWitnesses == 2      \* a transaction is sent with at most this many witnesses

InitWire ==
    /\ mode = "wire"
    /\ \E kind \in TxKinds,
          attributes \in SeqsUpTo(TxAttributes, MaxAttributes),
          inputs \in SeqsUpTo(TxInputs, MaxInputs),
          outputs \in SeqsUpTo(TxOutputs, MaxOutputs) :
            heap = << [type |-> kind.type, version |-> kind.version,
                       attributes |-> attributes, inputs |-> inputs,
                       outputs |-> outputs, scripts |-> <<>>,
                       exclusive |-> kind.exclusive] >>
    /\ log = <<>>
    /\ txCall = [op |-> "none"]
    /\ IdleCodec /\ IdleStream /\ IdleWallet /\ IdleGas /\ IdleOps

\* signTransaction(transaction, privateKey) before the transaction is written
CallSignTransactionForWire(privateKey) ==
    /\ mode = "wire" /\ txCall.op \in {"none", "signTransaction"}
    /\ Len(heap[1].scripts) < MaxWitnesses
    /\ LET returns(r) ==
                /\ heap' = r.heap
                /\ txCall' = [op |-> "signTransaction", transaction |-> 1,
                              privateKey |-> privateKey, ret |-> r.ret]
       IN returns(signTransaction(heap, 1, privateKey))
    /\ log' = Append(log, [transaction |-> 1, privateKey |-> privateKey,
                           before |-> heap[1].scripts])
    /\ UNCHANGED <<mode, codecVars, gasVars, opsVars, walletVars>>

\* serializeTransaction(tx, true) on the object the caller built
CallSerializeTransactionForWire ==
    /\ mode = "wire" /\ txCall.op \in {"none", "signTransaction"}
    /\ txCall' = [op |-> "serializeTransaction", tx |-> heap[1],
                  ret |-> serializeTransaction(heap[1], TRUE)]
    /\ UNCHANGED <<mode, codecVars, gasVars, opsVars, walletVars, heap, log>>

\* deserializeTransaction(data) on the string written
CallDeserializeTransactionOfWire ==
    /\ mode = "wire" /\ txCall.op = "serializeTransaction"
    /\ LET r == deserializeTransaction(txCall.ret)
       IN /\ heap' = IF r.st = "ok" THEN Append(heap, r.val) ELSE heap
          /\ txCall' = [op |-> "deserializeTransaction", data |-> txCall.ret,
                        of |-> txCall.tx, st |-> r.st,
                        ret |-> IF r.st = "ok" THEN Len(heap) + 1 ELSE 0]
    /\ UNCHANGED <<mode, codecVars, gasVars, opsVars, walletVars, log>>

\* serializeTransaction(tx, true) on the object deserializeTransaction made
CallSerializeTransactionAgain ==
    /\ mode = "wire" /\ txCall.op = "deserializeTransaction" /\ txCall.st = "ok"
    /\ txCall' = IF serializeTransactionThrows(heap[txCall.ret])
                 THEN [op |-> "serializeTransactionAgain", data |-> txCall.data,
                       tx |-> txCall.ret, st |-> "thrown", ret |-> <<>>]
                 ELSE [op |-> "serializeTransactionAgain", data |-> txCall.data,
                       tx |-> txCall.ret, st |-> "ok",
                       ret |-> serializeTransaction(heap[txCall.ret], TRUE)]
    /\ UNCHANGED <<mode, codecVars, gasVars, opsVars, walletVars, heap, log>>

\* addContract(txData, sign, publicKeyEncoded) with the unsigned
\* serialization of the transaction, its signature by the key and the public
\* key of the key's Account
CallAddContract(privateKey) ==
    /\ mode = "wire" /\ txCall.op = "none"
    /\ LET called(txData, sign, publicKeyEncoded) ==
                [op |-> "addContract", txData |-> txData, sign |-> sign,
                 publicKeyEncoded |-> publicKeyEncoded,
                 ret |-> addContract(txData, sign, publicKeyEncoded)]
           signed(txData) ==
                called(txData, signatureData(txData, privateKey),
                       getAccountFromPrivateKey(JsString(privateKey)).publicKeyEncoded)
       IN txCall' = signed(serializeTransaction(heap[1], FALSE))
    /\ UNCHANGED <<mode, codecVars, gasVars, opsVars, walletVars, heap, log>>

NextWire ==
    \/ \E privateKey \in SignKeys : CallAddContract(privateKey)
    \/ \E privateKey \in SignKeys : CallSignTransactionForWire(privateKey)
    \/ CallSerializeTransactionForWire
    \/ CallDeserializeTransactionOfWire
    \/ CallSerializeTransactionAgain

SpecWire == InitWire /\ [][NextWire]_vars

---------------------------------------------------------------------------
(* Runs of signTransaction whose signatures are verified: a caller builds  *)
(* a Transaction object and signs it once.                                 *)

InitVerify ==
    /\ mode = "verify"
    /\ \E kind \in TxKinds,
          attributes \in SeqsUpTo(TxAttributes, MaxAttributes),
          inputs \in SeqsUpTo(TxInputs, MaxInputs),
          outputs \in SeqsUpTo(TxOutputs, MaxOutputs) :
            heap = << [type |-> kind.type, version |-> kind.version,
                       attributes |-> attributes, inputs |-> inputs,
                       outputs |-> outputs, scripts |-> <<>>,
                       exclusive |-> kind.exclusive] >>
    /\ log = <<>>
    /\ txCall = [op |-> "none"]
    /\ IdleCodec /\ IdleStream /\ IdleWallet /\ IdleGas /\ IdleOps

\* signTransaction(transaction, privateKey) on the object the caller built,
\* which holds no witness yet
CallSignTransactionOnce(privateKey) ==
    /\ mode = "verify" /\ heap[1].scripts = <<>>
    /\ LET r == signTransaction(heap, 1, privateKey)
       IN /\ heap' = r.heap
          /\ log' = Append(log, [transaction |-> 1, privateKey |-> privateKey,
                                 before |-> heap[1].scripts])
          /\ txCall' = [op |-> "signTransaction", transaction |-> 1,
                        privateKey |-> privateKey, before |-> heap, ret |-> r.ret]
    /\ UNCHANGED <<mode, codecVars, gasVars, opsVars, walletVars>>

NextVerify == \E privateKey \in SignKeys : CallSignTransactionOnce(privateKey)

SpecVerify == InitVerify /\ [][NextVerify]_vars

---------------------------------------------------------------------------
(* gasCostCeil and fixed8GasCeil. A JavaScript number that holds an        *)
(* integer is the record of the hex digits of its magnitude, with a field  *)
(* neg when it is below zero; it is a double, so a sum or a difference is  *)
(* the exact one rounded to 53 significant bits.                           *)

\* const D = 100000000
D == 100000000

\* the number of the given magnitude, below zero if asked and not zero
SignedNum(neg, digits) ==
    IF neg /\ digits # <<0>> THEN [int |-> digits, frac |-> <<>>, neg |-> TRUE]
    ELSE [int |-> digits, frac |-> <<>>]

\* quotient (as digits) and remainder of a digit string by a model natural m
RECURSIVE DigitsDivMod(_, _)
DigitsDivMod(d, m) ==
    IF d = <<>> THEN [quot |-> <<>>, rem |-> 0]
    ELSE LET front == DigitsDivMod(SubSeq(d, 1, Len(d) - 1), m)
         IN [quot |-> Append(front.quot, (front.rem * 16 + d[Len(d)]) \div m),
             rem |-> (front.rem * 16 + d[Len(d)]) % m]

\* the digits of d + k, exactly
RECURSIVE DigitsAdd(_, _)
DigitsAdd(d, k) ==
    IF k = 0 THEN d
    ELSE IF d = <<>> THEN NatDigits(k)
    ELSE Append(DigitsAdd(SubSeq(d, 1, Len(d) - 1), (d[Len(d)] + k) \div 16),
                (d[Len(d)] + k) % 16)

RECURSIVE DigitsSubPadded(_, _)
DigitsSubPadded(d, k) ==
    IF k = 0 \/ d = <<>> THEN d
    ELSE IF d[Len(d)] >= (k % 16)
    THEN Append(DigitsSubPadded(SubSeq(d, 1, Len(d) - 1), k \div 16), d[Len(d)] - (k % 16))
    ELSE Append(DigitsSubPadded(SubSeq(d, 1, Len(d) - 1), k \div 16 + 1),
                d[Len(d)] + 16 - (k % 16))

\* the digits of d - k, exactly, for k not above d
DigitsSub(d, k) == StripLeadingZeros(DigitsSubPadded(d, k))

\* the number of significant bits of a digit string without leading zeros
BitLength(d) ==
    IF d = <<0>> THEN 0
    ELSE 4 * (Len(d) - 1)
         + (IF d[1] >= 8 THEN 4 ELSE IF d[1] >= 4 THEN 3 ELSE IF d[1] >= 2 THEN 2 ELSE 1)

\* the double nearest to a whole number below 2^64, ties to the even one
ToDouble(d) ==
    LET drop == BitLength(d) - 53
        tail == DigitsValueCapped(SubSeq(d, Len(d) - 3, Len(d)), 0, 65536)
    IN IF drop <= 0 THEN d
       ELSE IF tail % (2 ^ drop) = 0 THEN d
       ELSE IF \/ 2 * (tail % (2 ^ drop)) < 2 ^ drop
               \/ 2 * (tail % (2 ^ drop)) = 2 ^ drop /\ (tail \div (2 ^ drop)) % 2 = 0
       THEN DigitsSub(d, tail % (2 ^ drop))
       ELSE DigitsAdd(d, 2 ^ drop - (tail % (2 ^ drop)))

\* fixed8GasCeil with the step to the next multiple left out
fixed8GasCeilNoStep(fixed8GasCost) ==
    LET remainder == DigitsDivMod(fixed8GasCost.int, D).rem
    IN IF fixed8GasCost.int = <<0>> THEN Num(0)
       ELSE IF remainder = 0 THEN fixed8GasCost
       ELSE SignedNum(IsNegative(fixed8GasCost),
                      ToDouble(DigitsSub(fixed8GasCost.int, remainder)))

\* fixed8GasCeil(fixed8GasCost) for a number that holds an integer, which
\* Math.round leaves as it is; remainder is the magnitude of
\* fixed8GasCost % D, whose sign is the one of fixed8GasCost
fixed8GasCeil(fixed8GasCost) ==
    LET remainder == DigitsDivMod(fixed8GasCost.int, D).rem
    IN IF fixed8GasCost.int = <<0>> THEN Num(0)
       ELSE IF remainder = 0 THEN fixed8GasCost
       ELSE IF ~IsNegative(fixed8GasCost)
       THEN SignedNum(FALSE, ToDouble(DigitsAdd(ToDouble(DigitsSub(fixed8GasCost.int, remainder)), D)))
       ELSE SignedNum(TRUE, ToDouble(DigitsSub(fixed8GasCost.int, remainder)))

\* Math.floor(x / D): the quotient is a double, which is the next whole
\* number when the exact quotient is within half a unit in the last place
FloorOverD(x) ==
    LET dm == DigitsDivMod(x.int, D)
        q == StripLeadingZeros(dm.quot)
        shift == 54 - BitLength(q)
        near(r) == r # 0 /\ shift <= 26 /\ r <= D \div (2 ^ shift)
    IN IF ~IsNegative(x)
       THEN SignedNum(FALSE, IF near(D - dm.rem) THEN DigitsAdd(q, 1) ELSE q)
       ELSE SignedNum(TRUE, IF dm.rem = 0 \/ near(dm.rem) THEN q ELSE DigitsAdd(q, 1))

\* gasCostCeil(gasCost), gasCost being given by the whole number that
\* Math.round makes of gasCost * D
gasCostCeil(gasCost) == FloorOverD(fixed8GasCeil(gasCost))

---------------------------------------------------------------------------
(* Runs of fixed8GasCeil and gasCostCeil on amounts a number holds.        *)

MaxMultiple == 3    \* amounts around 0, D, ..., MaxMultiple D are tried

\* the digits of 2^k
Pow2(k) == <<2 ^ (k % 4)>> \o Repeat(0, k \div 4)

SmallAmounts ==
    { NatDigits(k * D + off) : k \in 0..MaxMultiple, off \in {0, 1, 30000001, D - 1} }

\* amounts past 2^53, up to the end of the range of a Fixed8
LargeAmounts ==
    { DigitsSub(Pow2(53), 1), Pow2(53), DigitsAdd(Pow2(53), 2),
      DigitsAdd(Pow2(60), 256), Pow2(61), DigitsAdd(Pow2(61), 512),
      Pow2(62), DigitsAdd(Pow2(62), 1024), DigitsSub(Pow2(63), 1024) }

\* the amounts a caller hands over: whole numbers that are doubles
GasAmounts ==
    { SignedNum(neg, d) : neg \in BOOLEAN,
                          d \in { a \in SmallAmounts \cup LargeAmounts : ToDouble(a) = a } }

InitGas ==
    /\ mode = "gas"
    /\ gCost \in GasAmounts
    /\ gCall = [op |-> "none"]
    /\ IdleCodec /\ IdleStream /\ IdleWallet /\ IdleTx /\ IdleOps

\* fixed8GasCeil(fixed8GasCost) on the caller's amount
CallFixed8GasCeil ==
    /\ mode = "gas"
    /\ gCall' = [op |-> "fixed8GasCeil", arg |-> gCost, ret |-> fixed8GasCeil(gCost)]
    /\ UNCHANGED <<mode, gCost, opsVars, codecVars, walletVars, txVars>>

\* fixed8GasCeil on what fixed8GasCeil returned
CallFixed8GasCeilAgain ==
    /\ mode = "gas" /\ gCall.op = "fixed8GasCeil"
    /\ gCall' = [op |-> "fixed8GasCeil", arg |-> gCall.ret, ret |-> fixed8GasCeil(gCall.ret)]
    /\ UNCHANGED <<mode, gCost, opsVars, codecVars, walletVars, txVars>>

\* gasCostCeil(gasCost) for the caller's amount
CallGasCostCeil ==
    /\ mode = "gas"
    /\ gCall' = [op |-> "gasCostCeil", arg |-> gCost, ret |-> gasCostCeil(gCost)]
    /\ UNCHANGED <<mode, gCost, opsVars, codecVars, walletVars, txVars>>

NextGas == CallFixed8GasCeil \/ CallFixed8GasCeilAgain \/ CallGasCostCeil

SpecGas == InitGas /\ [][NextGas]_vars

---------------------------------------------------------------------------
(* Runs of num2fixed8 and fixed82num on amounts of either sign. The amount *)
(* is given by the whole number Math.round makes of num * 100000000.       *)

MaxUnits == 20      \* the amounts of 0..MaxUnits units of 10^-8 are tried

\* amounts in units of 10^-8: small ones, whole coins, and the ones near the
\* ends of the signed 64-bit range
Fixed8Magnitudes ==
    { NatDigits(k) : k \in 0..MaxUnits }
        \cup { NatDigits(k * D) : k \in 1..MaxMultiple }
        \cup { NatDigits(255), NatDigits(256), NatDigits(65535), NatDigits(65536),
               DigitsSub(Pow2(53), 1), Pow2(53), Pow2(62), DigitsSub(Pow2(63), 1024) }

Fixed8Amounts ==
    { SignedNum(neg, d) : neg \in BOOLEAN,
                          d \in { a \in Fixed8Magnitudes : ToDouble(a) = a } }

InitFixed8 ==
    /\ mode = "fixed8"
    /\ cNum \in Fixed8Amounts
    /\ cSize = NoValue /\ cHex = NoValue /\ cVar = NoValue /\ cBack = NoValue
    /\ IdleStream /\ IdleWallet /\ IdleTx /\ IdleGas /\ IdleOps

\* num2fixed8(num)
CallNum2fixed8 ==
    /\ mode = "fixed8"
    /\ cHex' = Ok(num2fixed8(cNum))
    /\ cBack' = NoValue
    /\ UNCHANGED <<mode, cNum, cSize, cVar, ss, ssCall, walletVars, txVars, gasVars, opsVars>>

\* fixed82num(fixed8) on the string num2fixed8 returned
CallFixed82num ==
    /\ mode = "fixed8" /\ cHex.st = "ok"
    /\ cBack' = Ok(fixed82num(cHex.val))
    /\ UNCHANGED <<mode, cNum, cSize, cHex, cVar, ss, ssCall, walletVars, txVars, gasVars, opsVars>>

NextFixed8 == CallNum2fixed8 \/ CallFixed82num

SpecFixed8 == InitFixed8 /\ [][NextFixed8]_vars

---------------------------------------------------------------------------
(* chainline.js (hub-1.1): the parsers of the Demand and Travel objects    *)
(* the contract stores. A value handed to a parser is a string (t =        *)
(* "string") or an object; a Date is held as its count of seconds, an      *)
(* amount as its count of 10^-8 units.                                     *)

\* Constants: the sizes in bytes
DEMAND_SIZE == 160
TRAVEL_SIZE == 27
TIMESTAMP_SIZE == 4
VALUE_SIZE == 5
REP_REQUIRED_SIZE == 2
CARRY_SPACE_SIZE == 1
HASH160_SIZE == 20
INFO_BLOB_SIZE == 128

JsNull == [t |-> "null"]

\* consumeBytes(state, bytes): what is consumed, and state.hex after the call
consumeBytes(state, bytes) ==
    [consumed |-> Substr(state.hex, 0, bytes * 2),
     hex |-> Substring(state.hex, Min(bytes * 2, Len(state.hex)))]

\* isDemandHex(hex)
isDemandHex(hex) ==
    IF hex.t = "object" /\ "isDemand" \in DOMAIN hex THEN TRUE
    ELSE IF hex.t # "string" THEN FALSE
    ELSE \/ Len(hex.s) = DEMAND_SIZE * 2
         \/ Len(hex.s) = DEMAND_SIZE * 2 + TIMESTAMP_SIZE * 2

\* isTravelHex as it would be if it took the size of a Travel only
isTravelHexOfSizeOnly(hex) ==
    IF hex.t = "object" /\ "isTravel" \in DOMAIN hex THEN TRUE
    ELSE IF hex.t # "string" THEN FALSE
    ELSE Len(hex.s) >= TRAVEL_SIZE * 2

\* isTravelHex(hex)
isTravelHex(hex) ==
    IF hex.t = "object" /\ "isTravel" \in DOMAIN hex THEN TRUE
    ELSE IF hex.t # "string" THEN FALSE
    ELSE \/ Len(hex.s) = TRAVEL_SIZE * 2
         \/ Len(hex.s) = TRAVEL_SIZE * 2 + TIMESTAMP_SIZE * 2

\* hex2int(hex) || 0
hex2intOrZero(hex) ==
    IF parseInt16(reverseHex(hex)) = NaN THEN Num(0) ELSE parseInt16(reverseHex(hex))

\* hexstring2a(hexx): the character codes of the string
hexstring2a(hexx) == hexstring2ab(hexx)

\* the object parseDemandHex builds once the fields are cut
DemandOf(expiry, itemValue, owner, repRequired, itemSize, infoBlob) ==
    [t |-> "object", isDemand |-> TRUE,
     expiry |-> hex2intOrZero(expiry.consumed),
     itemValue |-> IF fixed82num(itemValue.consumed) = NaN THEN Num(0)
                   ELSE fixed82num(itemValue.consumed),
     owner |-> owner.consumed,
     repRequired |-> hex2intOrZero(repRequired.consumed),
     itemSize |-> hex2intOrZero(itemSize.consumed),
     infoBlob |-> hexstring2a(infoBlob.consumed),
     left |-> infoBlob.hex]

\* the fields of a Demand cut one after the other from state.hex; left is
\* state.hex when the parser returns
DemandCut5(e, v, o, r, i) == DemandOf(e, v, o, r, i, consumeBytes(i, INFO_BLOB_SIZE))
DemandCut4(e, v, o, r) == DemandCut5(e, v, o, r, consumeBytes(r, CARRY_SPACE_SIZE))
DemandCut3(e, v, o) == DemandCut4(e, v, o, consumeBytes(o, REP_REQUIRED_SIZE))
DemandCut2(e, v) == DemandCut3(e, v, consumeBytes(v, HASH160_SIZE))
DemandCut1(e) == DemandCut2(e, consumeBytes(e, VALUE_SIZE))

\* parseDemandHex(hex)
parseDemandHex(hex) ==
    IF ~isDemandHex(hex) THEN JsNull
    ELSE IF hex.t = "object" THEN hex
    ELSE DemandCut1(consumeBytes([hex |-> hex.s], TIMESTAMP_SIZE))

TravelOf(expiry, repRequired, carrySpace, owner) ==
    [t |-> "object", isTravel |-> TRUE,
     expiry |-> hex2intOrZero(expiry.consumed),
     repRequired |-> hex2intOrZero(repRequired.consumed),
     carrySpace |-> hex2intOrZero(carrySpace.consumed),
     owner |-> owner.consumed,
     left |-> owner.hex]

TravelCut3(e, r, c) == TravelOf(e, r, c, consumeBytes(c, HASH160_SIZE))
TravelCut2(e, r) == TravelCut3(e, r, consumeBytes(r, CARRY_SPACE_SIZE))
TravelCut1(e) == TravelCut2(e, consumeBytes(e, REP_REQUIRED_SIZE))

\* parseTravelHex(hex)
parseTravelHex(hex) ==
    IF ~isTravelHex(hex) THEN JsNull
    ELSE IF hex.t = "object" THEN hex
    ELSE TravelCut1(consumeBytes([hex |-> hex.s], TIMESTAMP_SIZE))

---------------------------------------------------------------------------
(* Runs of the parsers: a caller holds a string read from the contract's   *)
(* storage, of the right length or not, parses it as a Demand or as a      *)
(* Travel, and parses what a parser returned again.                        *)

MaxOff == 3     \* strings up to MaxOff characters shorter or longer are tried

\* the lengths tried: around the sizes, with and without the timestamp
StoredLengths ==
    {0} \cup { 2 * size + off : size \in {TRAVEL_SIZE, TRAVEL_SIZE + TIMESTAMP_SIZE,
                                          DEMAND_SIZE, DEMAND_SIZE + TIMESTAMP_SIZE},
                                off \in (0 - MaxOff)..MaxOff }

\* a string of hex digits of the given length; every cut of it has its own digits
StoredHex(len, step) == [i \in 1..len |-> (i * step + i \div 16) % 16]

InitParse ==
    /\ mode = "parse"
    /\ \E len \in StoredLengths, step \in {0, 3, 7} : cHex = JsString(StoredHex(len, step))
    /\ cBack = [op |-> "none"]
    /\ cNum = NoValue /\ cSize = NoValue /\ cVar = NoValue
    /\ IdleStream /\ IdleWallet /\ IdleTx /\ IdleGas /\ IdleOps

\* parseDemandHex(hex) on the string
CallParseDemandHex ==
    /\ mode = "parse"
    /\ cBack' = [op |-> "parseDemandHex", arg |-> cHex, ret |-> parseDemandHex(cHex)]
    /\ UNCHANGED <<mode, cNum, cSize, cHex, cVar, ss, ssCall, walletVars, txVars, gasVars, opsVars>>

\* parseTravelHex(hex) on the string
CallParseTravelHex ==
    /\ mode = "parse"
    /\ cBack' = [op |-> "parseTravelHex", arg |-> cHex, ret |-> parseTravelHex(cHex)]
    /\ UNCHANGED <<mode, cNum, cSize, cHex, cVar, ss, ssCall, walletVars, txVars, gasVars, opsVars>>

\* a parser on the object a parser returned
CallParseAgain(op) ==
    /\ mode = "parse" /\ cBack.op # "none" /\ cBack.ret.t = "object"
    /\ cBack' = [op |-> op, arg |-> cBack.ret,
                 ret |-> IF op = "parseDemandHex" THEN parseDemandHex(cBack.ret)
                         ELSE parseTravelHex(cBack.ret)]
    /\ UNCHANGED <<mode, cNum, cSize, cHex, cVar, ss, ssCall, walletVars, txVars, gasVars, opsVars>>

NextParse ==
    \/ CallParseDemandHex
    \/ CallParseTravelHex
    \/ \E op \in {"parseDemandHex", "parseTravelHex"} : CallParseAgain(op)

SpecParse == InitParse /\ [][NextParse]_vars

---------------------------------------------------------------------------
(* The sending operations of api.js and chainline.js.  An operation is an  *)
(* asynchronous function: it runs in one piece from one await (or .then)   *)
(* to the next, and other calls run in between.  A call in progress is a   *)
(* record of its arguments, its position pc and its locals:                *)
(*   pc = "called"  the function has not started                           *)
(*        "fetch"   it awaits the balances (or the claims) of the address  *)
(*        "rpc"     queryRPC was called; getRPCEndpoint has not resolved   *)
(*        "posted"  the request was posted; the answer is awaited          *)
(*        "done"    the promise it returned has settled (ret)              *)
(* Every request handed to axios is appended to requests.  The modules     *)
(* transactions/create.js and sc/scriptBuilder.js are not among the        *)
(* sources: a created transaction is a Transaction object with no witness, *)
(* and an invocation script is a fixed string.                             *)

JsBoolean(b) == [t |-> "boolean", b |-> b]
JsUndefined == [t |-> "undefined"]

\* a promise that was rejected, or a function that threw
Rejected == [st |-> "thrown"]

\* the Constants object of a revision of chainline.js
ConstantsOf(revision) ==
    [MAIN_NET |-> "MainNet", TEST_NET |-> "TestNet",
     HUB_SCRIPT_HASH |-> IF revision = "hub-0.3" THEN HUB_SCRIPT_HASH
                         ELSE HUB_SCRIPT_HASH_1_1]

\* makeCityPairHash(pickUpCity, dropOffCity), of the text of its arguments
makeCityPairHash(constants, pickUpCity, dropOffCity) ==
    RIPEMD160(constants.HUB_SCRIPT_HASH \o pickUpCity \o dropOffCity)

\* the cities of every call
PickUpCity == <<1, 2, 3, 4>>
DropOffCity == <<5, 6, 7, 8>>

\* int2hex(mNumber, true)
int2hexReversed(mNumber) == reverseHex(int2hex(mNumber))

\* String.prototype.startsWith
startsWith(str, prefix) ==
    Len(str) >= Len(prefix) /\ SubSeq(str, 1, Len(prefix)) = prefix

\* parseInt(value, 10) of a string of decimal digits
RECURSIVE parseInt10(_)
parseInt10(value) ==
    IF value = <<>> THEN 0
    ELSE 10 * parseInt10(SubSeq(value, 1, Len(value) - 1)) + value[Len(value)]

\* parseVMStack(stack): the items parsed, or thrown for an item of a type it
\* does not know
parseVMStack(stack) ==
    IF \E i \in 1..Len(stack) : stack[i].type \notin {"ByteArray", "Integer"}
    THEN Rejected
    ELSE Ok([i \in 1..Len(stack) |->
                IF stack[i].type = "ByteArray" THEN JsString(hexstring2a(stack[i].value))
                ELSE Num(parseInt10(stack[i].value))])

\* a property of a response that may not have it
PropertyOf(object, name) ==
    IF name \in DOMAIN object THEN object[name] ELSE JsUndefined

\* !value
Falsy(value) ==
    \/ value.t \in {"undefined", "null"}
    \/ (value.t = "boolean" /\ ~value.b)
    \/ (value.t = "string" /\ value.s = <<>>)

\* account.address put into a URL: the text 'undefined' when account is a number
AddressText(account) ==
    IF account.t = "object" THEN account.address ELSE UndefinedText

\* the script buildScript or ScriptBuilder makes
InvocationScript == <<0, 0, 12, 1>>

\* tx.create.claim, tx.create.contract and tx.create.invocation: a new
\* Transaction object of the kind of the operation, paying the account
createTransaction(op, account) ==
    [type |-> Num(CASE op = "doClaimAllGas" -> ClaimTransaction
                    [] op = "doSendAsset" -> ContractTransaction
                    [] OTHER -> InvocationTransaction),
     version |-> IF op \in {"doClaimAllGas", "doSendAsset"} THEN Num(0) ELSE Num(1),
     attributes |-> <<>>,
     inputs |-> <<[prevHash |-> HashOf(161, 32), prevIndex |-> Num(1)]>>,
     outputs |-> <<[assetId |-> HashOf(197, 32), value |-> Num(100000),
                    scriptHash |-> IF account.t = "object" THEN account.programHash
                                   ELSE UndefinedText]>>,
     scripts |-> <<>>,
     exclusive |-> CASE op = "doClaimAllGas" ->
                            [claims |-> <<[prevHash |-> HashOf(18, 32), prevIndex |-> Num(0)]>>]
                     [] op = "doSendAsset" -> <<>>
                     [] OTHER -> [script |-> InvocationScript, gas |-> Num(0)]]

\* signing as it would be if the transaction were serialized for sending
\* before signTransaction is called on it
serializeThenSign(h, unsignedTx, privateKey) ==
    [heap |-> signTransaction(h, unsignedTx, privateKey).heap,
     signedTx |-> 0,
     hexTx |-> serializeTransaction(h[unsignedTx], TRUE)]

\* const signedTx = tx.signTransaction(unsignedTx, account.privateKey)
\* const hexTx = tx.serializeTransaction(signedTx)
\* on the heap h: the heap after, the reference returned and the string
signAndSerialize(h, unsignedTx, privateKey) ==
    LET serialized(signed) ==
            [heap |-> signed.heap,
             signedTx |-> signed.ret,
             hexTx |-> serializeTransaction(signed.heap[signed.ret], TRUE)]
    IN serialized(signTransaction(h, unsignedTx, privateKey))

\* the call when its promise has settled
Settled(call, ret) == [call EXCEPT !.pc = "done", !.ret = ret]

\* what a step of a call leaves: the call, the heap and the requests it issued
Step(call, h, issued) == [call |-> call, heap |-> h, requests |-> issued]

\* a request handed to axios by a call
Request(call, kind, arg) == [by |-> call.id, kind |-> kind, arg |-> arg]

\* openDemand and openTravel as they would be if they sent the transaction
\* whatever sendTx says
firstAwaitSending(revision, op, sendTx) ==
    CASE op = "doClaimAllGas" -> "claims"
      [] op = "doTestNotify" -> "queryRPC"
      [] OTHER -> "getBalance"

\* what an operation awaits first
firstAwait(revision, op, sendTx) ==
    CASE op = "doClaimAllGas" -> "claims"
      [] op = "doTestNotify" -> "queryRPC"
      [] op \in {"openDemand", "openTravel"} /\ revision = "hub-1.1" /\ ~sendTx ->
            "doInvokeScript"
      [] OTHER -> "getBalance"

\* from create to queryRPC(net, 'sendrawtransaction', [hexTx]): the
\* transaction is made, signed and serialized; a key that is undefined, the
\* account being a number, makes signTransaction throw
buildAndSend(h, call) ==
    LET unsignedTx == createTransaction(call.op, call.account)
        privateKey == PropertyOf(call.account, "privateKey")
        made == Append(h, unsignedTx)
    IN IF signTransactionThrows(unsignedTx, privateKey)
       THEN Step(Settled(call, Rejected), h, <<>>)
       ELSE LET sending(signed) ==
                    Step([call EXCEPT !.pc = "rpc", !.method = "sendrawtransaction",
                                      !.unsignedTx = Len(made),
                                      !.signedTx = signed.signedTx,
                                      !.hexTx = signed.hexTx],
                         signed.heap, <<>>)
            IN sending(signAndSerialize(made, Len(made), privateKey.s))

\* an operation from its call to its first await; getAccountFromWIFKey throws
\* when the string is not base58
start(h, call) ==
    LET first == firstAwait(call.revision, call.op, call.sendTx)
        awaiting(account, known) ==
            IF account.t = "thrown" THEN Step(Settled(call, Rejected), h, <<>>)
            ELSE CASE first = "claims" ->
                         Step([known EXCEPT !.pc = "fetch"], h,
                              <<Request(call, "claims", AddressText(account))>>)
                   [] first = "getBalance" ->
                         Step([known EXCEPT !.pc = "fetch"], h,
                              <<Request(call, "balance", AddressText(account))>>)
                   [] first = "doInvokeScript" ->
                         Step([known EXCEPT !.pc = "rpc", !.method = "invokescript"],
                              h, <<>>)
                   [] first = "queryRPC" -> buildAndSend(h, known)
        derived(account) == awaiting(account, [call EXCEPT !.account = account])
    IN derived(getAccountFromWIFKey(call.wif))

\* an operation from the answer to its fetch to its next await: the promise
\* is rejected when the fetch is, or when create throws for a balance that
\* does not cover the intents
afterFetch(h, call, answer) ==
    IF answer # "data" THEN Step(Settled(call, Rejected), h, <<>>)
    ELSE buildAndSend(h, call)

\* queryRPC after getRPCEndpoint resolved: jsonRequest.post(rpcEndpoint, jsonRpcData)
post(h, call) ==
    Step([call EXCEPT !.pc = "posted"], h,
         <<Request(call, call.method,
                   IF call.method = "sendrawtransaction" THEN call.hexTx
                   ELSE InvocationScript)>>)

\* the operations as they would be if they sent the transaction again when
\* the answer has no result that is true
afterSendRetrying(h, call, data) ==
    IF Falsy(PropertyOf(data, "result"))
    THEN [call EXCEPT !.pc = "rpc", !.sent = data]
    ELSE Settled([call EXCEPT !.sent = data], Ok(data))

\* an operation from the answer to sendrawtransaction on: the operations of
\* api.js and of hub-1.1 return the response (doSendAsset with the hash of
\* the transaction); openDemand and openTravel of hub-0.3 return false for a
\* result that is falsy and call getTimestamp otherwise
afterSend(h, call, data) ==
    LET answered == [call EXCEPT !.sent = data]
    IN IF call.revision = "hub-0.3" /\ call.op \in {"openDemand", "openTravel"}
       THEN IF Falsy(PropertyOf(data, "result"))
            THEN Settled(answered, Ok(JsBoolean(FALSE)))
            ELSE [answered EXCEPT !.pc = "rpc", !.method = "invokescript"]
       ELSE IF call.op = "doSendAsset"
       THEN Settled(answered,
                    Ok([result |-> PropertyOf(data, "result"),
                        hash |-> getTransactionHash(h[call.unsignedTx])]))
       ELSE Settled(answered, Ok(data))

\* the identifiers as they would be with the numbers written most
\* significant byte first
trackingIdsBigEndian(call, blockTime, constants) ==
    LET cityPairHash == makeCityPairHash(constants, PickUpCity, DropOffCity)
        shortId == int2hex(blockTime) \o int2hex(call.expiry)
                        \o (IF call.op = "openDemand" THEN <<0, 1>> ELSE <<0, 2>>)
    IN [t |-> "object", shortId |-> shortId, longId |-> shortId \o cityPairHash]

\* const shortId = int2hex(blockTime, true) + int2hex(expiry, true) + '01'
\* return { shortId, longId: shortId + cityPairHash }
trackingIds(call, blockTime, constants) ==
    LET cityPairHash == makeCityPairHash(constants, PickUpCity, DropOffCity)
        shortId == int2hexReversed(blockTime) \o int2hexReversed(call.expiry)
                        \o (IF call.op = "openDemand" THEN <<0, 1>> ELSE <<0, 2>>)
    IN [t |-> "object", shortId |-> shortId, longId |-> shortId \o cityPairHash]

\* openDemand and openTravel of hub-0.3 from the answer to getTimestamp on:
\* res.stack of a response without result, an item of an unknown type and
\* int2hex of no item at all throw
afterTimestamp(call, data, constants) ==
    LET res == PropertyOf(data, "result")
        parsed == parseVMStack(res.stack)
    IN IF res.t = "undefined" \/ parsed.st = "thrown" \/ parsed.val = <<>>
       THEN Settled(call, Rejected)
       ELSE Settled([call EXCEPT !.blockTime = parsed.val[1]],
                    Ok(trackingIds(call, parsed.val[1], constants)))

\* res.stack && res.stack.length && res.stack[0].value !== ''
successOf(res) ==
    IF res.stack = <<>> THEN JsNumber(0)
    ELSE JsBoolean(res.stack[1].value # <<>>)

\* openDemand and openTravel of hub-1.1 from the answer to doInvokeScript on:
\* res.state of a response without result throws
afterInvoke(call, data) ==
    LET res == PropertyOf(data, "result")
        answered == [call EXCEPT !.invoked = data]
    IN IF res.t = "undefined" THEN Settled(answered, Rejected)
       ELSE IF res.state # <<>> /\ startsWith(res.state, <<"H", "A", "L", "T">>)
       THEN Settled(answered,
                    Ok([t |-> "object", result |-> TRUE,
                        gasConsumed |-> res.gas_consumed, success |-> successOf(res)]))
       ELSE Settled(answered, Ok([t |-> "object", result |-> FALSE]))

\* an operation from the answer to its request on; a request that failed
\* rejects the promise
afterAnswer(h, call, answer, constants) ==
    IF answer.st = "thrown" THEN Settled(call, Rejected)
    ELSE IF call.method = "sendrawtransaction" THEN afterSend(h, call, answer.val)
    ELSE IF call.revision = "hub-0.3" THEN afterTimestamp(call, answer.val, constants)
    ELSE afterInvoke(call, answer.val)

---------------------------------------------------------------------------
(* Runs of the sending operations: one call, or two calls whose steps are  *)
(* interleaved, each of a WIF key that is well formed or not; the network  *)
(* answers every request in one of the ways it can.                        *)

\* the operations of a revision
OperationsOf(revision) ==
    IF revision = "hub-0.3"
    THEN {"doClaimAllGas", "doSendAsset", "doMintTokens", "doTestNotify",
          "openDemand", "openTravel"}
    ELSE {"openDemand", "openTravel", "setFundsPaidToRecipientTxHash"}

\* the strings handed in as WIF keys: the keys of two accounts, and one with
\* a wrong checksum, one too short, one with a character that is not base58
OfferedWIFs ==
    { getWIFFromPrivateKey(KeyOf(v)).s : v \in {2, 5} }
        \cup { ForeignWIF(KeyOf(2), kind) : kind \in {"checksum", "short", "char"} }

\* the expiry of a demand or travel
Expiries == { Num(10), Num(291) }

\* a call that has not started
NewCall(id, revision, op, wif, sendTx, expiry) ==
    [id |-> id, revision |-> revision, op |-> op, wif |-> wif, sendTx |-> sendTx,
     expiry |-> expiry, pc |-> "called", method |-> "none", account |-> JsUndefined,
     unsignedTx |-> 0, signedTx |-> 0, hexTx |-> <<>>, sent |-> NoValue,
     invoked |-> NoValue, blockTime |-> NoValue, ret |-> NoValue]

\* the calls a caller of a revision can make; sendTx and expiry are
\* arguments of openDemand and openTravel only
CallsOf(id, revision, wifs) ==
    { NewCall(id, revision, op, wif, sendTx, expiry) :
        op \in OperationsOf(revision) \ {"openDemand", "openTravel"},
        wif \in wifs, sendTx \in {TRUE}, expiry \in {Num(10)} }
    \cup
    { NewCall(id, revision, op, wif, sendTx, expiry) :
        op \in {"openDemand", "openTravel"}, wif \in wifs,
        sendTx \in IF revision = "hub-0.3" THEN {TRUE} ELSE BOOLEAN,
        expiry \in IF revision = "hub-0.3" THEN Expiries ELSE {Num(10)} }

\* what the fetch of the balances or claims may come to
FetchAnswers == {"data", "insufficient", "rejected"}

\* the answers to sendrawtransaction: a result of true or false, an error
\* instead of a result, or no answer
SendAnswers ==
    { Rejected, Ok([result |-> JsBoolean(TRUE)]), Ok([result |-> JsBoolean(FALSE)]),
      Ok([error |-> JsString(<<>>)]) }

\* a VM state
HaltBreak == <<"H", "A", "L", "T", ",", " ", "B", "R", "E", "A", "K">>
FaultBreak == <<"F", "A", "U", "L", "T", ",", " ", "B", "R", "E", "A", "K">>

\* the answers to the invokescript of openDemand and openTravel
InvokeAnswers ==
    { Rejected, Ok([error |-> JsString(<<>>)]) }
        \cup { Ok([result |-> [t |-> "object", state |-> state,
                               gas_consumed |-> <<0, Dot, 5>>, stack |-> stack]]) :
                state \in {HaltBreak, FaultBreak, <<>>},
                stack \in { <<>>, <<[type |-> "ByteArray", value |-> <<>>]>>,
                            <<[type |-> "ByteArray", value |-> <<0, 1>>]>> } }

\* the answers to the invokescript of getTimestamp
TimestampAnswers ==
    { Rejected, Ok([error |-> JsString(<<>>)]) }
        \cup { Ok([result |-> [t |-> "object", state |-> HaltBreak,
                               gas_consumed |-> <<0, Dot, 1>>, stack |-> stack]]) :
                stack \in { <<>>, <<[type |-> "Boolean", value |-> <<>>]>>,
                            <<[type |-> "Integer", value |-> <<2, 5, 5>>]>>,
                            <<[type |-> "Integer", value |-> <<1, 5, 1, 6>>]>> } }

\* the answers a call may get to the request it posted
AnswersTo(call) ==
    IF call.method = "sendrawtransaction" THEN SendAnswers
    ELSE IF call.revision = "hub-0.3" THEN TimestampAnswers
    ELSE InvokeAnswers

InitOperations ==
    /\ mode = "operations"
    /\ \E revision \in {"hub-0.3", "hub-1.1"} :
        /\ hubConstants = ConstantsOf(revision)
        /\ \E call \in CallsOf(1, revision, OfferedWIFs) : calls = <<call>>
    /\ requests = <<>>
    /\ heap = <<>> /\ log = NoValue /\ txCall = NoValue
    /\ IdleCodec /\ IdleStream /\ IdleWallet /\ IdleGas

\* the operations run side by side
ConcurrentOperations == {"doSendAsset", "openDemand", "setFundsPaidToRecipientTxHash"}

\* two calls of one revision, each with the key of its own account
InitConcurrent ==
    /\ mode = "concurrent"
    /\ \E revision \in {"hub-0.3", "hub-1.1"} :
        /\ hubConstants = ConstantsOf(revision)
        /\ \E one \in CallsOf(1, revision, {getWIFFromPrivateKey(KeyOf(2)).s}),
              other \in CallsOf(2, revision, {getWIFFromPrivateKey(KeyOf(5)).s}) :
                /\ one.op \in ConcurrentOperations /\ other.op \in ConcurrentOperations
                /\ calls = <<one, other>>
    /\ requests = <<>>
    /\ heap = <<>> /\ log = NoValue /\ txCall = NoValue
    /\ IdleCodec /\ IdleStream /\ IdleWallet /\ IdleGas

\* what a step of the call p leaves in the state
Leaves(p, step) ==
    /\ calls' = [calls EXCEPT ![p] = step.call]
    /\ heap' = step.heap
    /\ requests' = requests \o step.requests
    /\ UNCHANGED <<mode, codecVars, walletVars, gasVars, log, txCall, hubConstants>>

\* the call p runs to its first await
Start(p) ==
    /\ mode \in {"operations", "concurrent"} /\ calls[p].pc = "called"
    /\ Leaves(p, start(heap, calls[p]))

\* the fetch of the call p is answered and the call runs on
AnswerFetch(p, answer) ==
    /\ mode \in {"operations", "concurrent"} /\ calls[p].pc = "fetch"
    /\ Leaves(p, afterFetch(heap, calls[p], answer))

\* getRPCEndpoint resolves and the request of the call p is posted
Post(p) ==
    /\ mode \in {"operations", "concurrent"} /\ calls[p].pc = "rpc"
    /\ Leaves(p, post(heap, calls[p]))

\* the request of the call p is answered and the call runs on
Answer(p, answer) ==
    /\ mode \in {"operations", "concurrent"} /\ calls[p].pc = "posted"
    /\ answer \in AnswersTo(calls[p])
    /\ Leaves(p, Step(afterAnswer(heap, calls[p], answer, hubConstants), heap, <<>>))

NextOperations ==
    \E p \in DOMAIN calls :
        \/ Start(p)
        \/ \E answer \in FetchAnswers : AnswerFetch(p, answer)
        \/ Post(p)
        \/ \E answer \in SendAnswers \cup InvokeAnswers \cup TimestampAnswers :
                Answer(p, answer)

SpecOperations == InitOperations /\ [][NextOperations]_vars

SpecConcurrent == InitConcurrent /\ [][NextOperations]_vars

---------------------------------------------------------------------------
(* CLAIMS                                                                *)
---------------------------------------------------------------------------

\* the transaction deserializeTransaction made of what serializeTransaction
\* wrote of tx has the type, version, attributes, inputs and outputs of tx
SameContent(back, tx) ==
    /\ back.type = tx.type /\ back.version = tx.version
    /\ back.attributes = tx.attributes
    /\ back.inputs = tx.inputs
    /\ back.outputs = tx.outputs

\* C1: deserializeTransaction(serializeTransaction(tx, false)) returns a
\* transaction with the type, version, attributes, inputs and outputs of tx,
\* each element in its own list and in the same order, and with no scripts.
C1_DeserializeInvertsSerialize ==
    (mode = "tx" /\ txCall.op = "deserializeTransaction" /\ ~txCall.signed) =>
        /\ txCall.st = "ok"
        /\ SameContent(heap[txCall.ret], txCall.of)
        /\ Len(heap[txCall.ret].scripts) = 0

\* a list written as its length in a VarInt and then its items
VarIntPrefixed(component, list) ==
    num2VarInt(Num(Len(list))) \o SerializeEach(component, list, 1)

\* the fields of a transaction in the order documented, witnesses left out
DocumentedUnsigned(tx) ==
    num2hexstring(tx.type, 2) \o num2hexstring(tx.version, 2)
        \o serializeExclusiveData(tx)
        \o VarIntPrefixed("attribute", tx.attributes)
        \o VarIntPrefixed("input", tx.inputs)
        \o VarIntPrefixed("output", tx.outputs)

\* a is b cut short
ProperPrefix(a, b) == Len(a) < Len(b) /\ SubSeq(b, 1, Len(a)) = a

\* C2: serializeTransaction writes type, version, the payload of the kind and
\* the VarInt-prefixed attributes, inputs and outputs in this order, and the
\* VarInt-prefixed witnesses after them only when signed is true and tx.scripts
\* is not empty; so what it writes with signed = false does not depend on
\* tx.scripts and is a proper prefix of what it writes with signed = true
\* whenever tx.scripts is not empty.
C2_SerializationLayout ==
    (mode = "tx" /\ txCall.op = "serializeTransaction") =>
        LET tx == txCall.tx
            withWitnesses == Len(tx.scripts) > 0
        IN /\ (~txCall.signed \/ ~withWitnesses) => txCall.ret = DocumentedUnsigned(tx)
           /\ (txCall.signed /\ withWitnesses) =>
                 txCall.ret = DocumentedUnsigned(tx) \o VarIntPrefixed("script", tx.scripts)
           /\ ~txCall.signed =>
                 /\ txCall.ret = serializeTransaction([tx EXCEPT !.scripts = <<>>], FALSE)
                 /\ withWitnesses => ProperPrefix(txCall.ret, serializeTransaction(tx, TRUE))

\* a transaction that holds two witnesses and an attribute has been
\* serialized with signed = false, to less than with signed = true
C2_Witness ==
    /\ mode = "tx" /\ txCall.op = "serializeTransaction" /\ ~txCall.signed
    /\ Len(txCall.tx.scripts) = 2 /\ Len(txCall.tx.attributes) > 0
    /\ Len(txCall.ret) < Len(serializeTransaction(txCall.tx, TRUE))

\* C3: after n >= 1 calls of signTransaction the transaction holds n
\* witnesses more than before the first call, the earlier ones unchanged and
\* the new ones at the end in the order of the calls; each new witness has
\* an invocationScript of '40' and 64 bytes, the signature by the key of its
\* call of the one message serializeTransaction(tx, false), whatever witnesses
\* were there.
C3_WitnessesAppendedInOrder ==
    (mode = "tx" /\ Len(log) >= 1) =>
        LET tx == heap[1]
            before == log[1].before
            message == serializeTransaction([tx EXCEPT !.scripts = <<>>], FALSE)
        IN /\ Len(tx.scripts) = Len(before) + Len(log)
           /\ SubSeq(tx.scripts, 1, Len(before)) = before
           /\ \A i \in 1..Len(log) :
                LET invocationScript == tx.scripts[Len(before) + i].invocationScript
                IN /\ Len(invocationScript) = 2 + 2 * 64
                   /\ SubSeq(invocationScript, 1, 2) = <<4, 0>>
                   /\ SubSeq(invocationScript, 3, Len(invocationScript))
                        = signatureData(message, log[i].privateKey)
                   /\ log[i].before = SubSeq(tx.scripts, 1, Len(before) + i - 1)

\* a transaction has been signed with one key and then with another
C3_Witness ==
    /\ mode = "tx" /\ Len(log) = 2 /\ log[1].privateKey # log[2].privateKey
    /\ Len(heap[1].scripts) = 2
    /\ heap[1].scripts[1].verificationScript # heap[1].scripts[2].verificationScript

LittleEndianHex(num, bytes) ==
    reverseHex(Repeat(0, 2 * bytes - Len(num.int)) \o num.int)

\* the VarInt encoding as documented: one byte below 0xfd, else a marker and
\* the number little-endian on 2, 4 or 8 bytes
DocumentedVarInt(num) ==
    IF NumLess(num, Num(253)) THEN LittleEndianHex(num, 1)
    ELSE IF NumLessEq(num, Num(65535)) THEN <<15, 13>> \o LittleEndianHex(num, 2)
    ELSE IF NumLessEq(num, [int |-> Repeat(15, 8), frac |-> <<>>])
    THEN <<15, 14>> \o LittleEndianHex(num, 4)
    ELSE <<15, 15>> \o LittleEndianHex(num, 8)

\* C5: num2VarInt(n) is one byte for n < 0xfd, 'fd' + 2 bytes little-endian for
\* n <= 0xffff, 'fe' + 4 bytes little-endian for n <= 0xffffffff and 'ff' + 8
\* bytes little-endian beyond; and readVarInt gives back each boundary value
\* 0x00, 0xfc, 0xfd, 0xffff, 0x10000, 0xffffffff, 0x100000000 from its encoding.
C5_VarIntLittleEndianRoundTrip ==
    /\ cVar.st = "ok" => cVar.val = DocumentedVarInt(cNum)
    /\ (cBack.st # "none" /\ cNum \in VarIntBoundaries)
            => (cBack.st = "ok" /\ cBack.val = cNum)

\* the characters a whole VarInt field at the head of stream s takes
VarIntFieldChars(s) ==
    LET head == Substr(s.str, s.pter, 2)
    IN IF head = <<15, 13>> THEN 6
       ELSE IF head = <<15, 14>> THEN 10
       ELSE IF head = <<15, 15>> THEN 18
       ELSE 2

\* C6: a read from a StringStream that holds fewer bytes than the length being
\* read fails: a call of read(n), readVarInt or readVarBytes that returns has
\* found its whole field in the stream, and read(n) and readVarBytes return
\* exactly the number of bytes asked for.
C6_TruncatedReadFails ==
    (mode = "stream" /\ ssCall.st = "ok") =>
        LET b == ssCall.before
            avail == Len(b.str) - b.pter
        IN /\ ssCall.op = "read" => Len(ssCall.val) = 2 * ssCall.n
           /\ ssCall.op = "readVarInt" => VarIntFieldChars(b) <= avail
           /\ ssCall.op = "readVarBytes" =>
                /\ VarIntFieldChars(b) <= avail
                /\ Len(ssCall.val) % 2 = 0
                /\ Num(Len(ssCall.val) \div 2) = readVarInt(b).val

\* C7: num2hexstring(num, size) never truncates: when num has more than size
\* hex digits (num >= 16^size) the call either reports an error or returns a
\* string holding every digit of num unaltered.
C7_OverflowNeverTruncated ==
    (mode = "varint" /\ cHex.st = "ok" /\ Len(cNum.int) > cSize)
        => StripLeadingZeros(cHex.val) = cNum.int



\* the string that getWIFFromPrivateKey or another party made decodes to 38
\* bytes, 0x80 first, 0x01 at 33, the last 4 the first 4 of the double SHA256
\* of the 34 before them
WellFormedWIF ==
    LET b == wWIF.bytes
    IN /\ wWIF.st # "char"
       /\ Len(b) = 38 /\ b[1] = 128 /\ b[34] = 1
       /\ SubSeq(b, 35, 38)
            = SubSeq(hexstring2ab(SHA256(SHA256(ab2hexstring(SubSeq(b, 1, 34))))), 1, 4)

\* C8: getPrivateKeyFromWIF gives back (in hex) the 32-byte key that
\* getWIFFromPrivateKey encoded, and gives no key (it returns -1 or -2, or
\* base58 throws) for a string whose decoded form is not 38 bytes, does not
\* start with 0x80, has not 0x01 at byte 33, or whose last 4 bytes are not the
\* checksum of the first 34.
C8_WIFRoundTripAndRejection ==
    (mode = "wallet" /\ wCall.op = "getPrivateKeyFromWIF") =>
        /\ wWIF.st = "encoded" => wCall.ret = JsString(ab2hexstring(wKey))
        /\ ~WellFormedWIF => wCall.ret.t # "string"

\* a WIF string with one checksum byte changed has been refused with -2
C8_Witness ==
    /\ mode = "wallet" /\ wCall.op = "getPrivateKeyFromWIF"
    /\ wWIF.st = "checksum" /\ wCall.ret = JsNumber(-2)

\* C9: an account derivation never returns a number (the sentinels -1, -2)
\* in place of an Account: it returns an Account or fails with an error.
C9_NoSentinelFromDerivation ==
    (mode = "wallet" /\ wCall.op \in { "getAccountFromWIFKey", "getAccountFromPrivateKey",
                                        "getAccountFromPublicKey" })
        => wCall.ret.t # "number"

\* the bytes of a hex string in the opposite order
ReverseBytes(hex) ==
    [i \in 1..Len(hex) |-> hex[2 * (Len(hex) \div 2 - 1 - ((i - 1) \div 2)) + ((i - 1) % 2) + 1]]

\* C10: the Account that getAccountFromPrivateKey derives has programHash =
\* RIPEMD160(SHA256(wallet script of its publicKeyEncoded)); addressToScriptHash
\* of its address is that programHash, and getScriptHashFromAddress of its
\* address is the programHash with its 20 bytes reversed.
C10_AddressDecodesToProgramHash ==
    /\ (mode = "wallet" /\ wCall.op = "getAccountFromPrivateKey" /\ wCall.ret.t = "object") =>
          /\ wCall.ret.programHash
                = RIPEMD160(SHA256(createChainLineWalletScript(wCall.ret.publicKeyEncoded)))
          /\ Len(wCall.ret.programHash) = 40
    /\ (mode = "wallet" /\ wCall.op = "addressToScriptHash"
            /\ wCall.from = "getAccountFromPrivateKey") =>
          wCall.ret = JsString(wCall.account.programHash)
    /\ (mode = "wallet" /\ wCall.op = "getScriptHashFromAddress"
            /\ wCall.from = "getAccountFromPrivateKey") =>
          wCall.ret = JsString(ReverseBytes(wCall.account.programHash))

\* the address of an Account derived from a private key has been decoded by
\* getScriptHashFromAddress to a script hash that is not its own reversal
C10_Witness ==
    /\ mode = "wallet" /\ wCall.op = "getScriptHashFromAddress"
    /\ wCall.from = "getAccountFromPrivateKey"
    /\ wCall.ret.t = "string" /\ wCall.ret.s # wCall.account.programHash
    /\ addressToScriptHash(wCall.arg) = JsString(wCall.account.programHash)

\* the bytes handed in as an address are 25, the last 4 the first 4 of the
\* double SHA256 of the 21 before them
WellFormedAddress ==
    LET b == wCall.bytes
    IN /\ wCall.kind # "char"
       /\ Len(b) = 25
       /\ ab2hexstring(SubSeq(b, 22, 25)) = Checksum(SubSeq(b, 1, 21))

\* C11: addressToScriptHash, getScriptHashFromAddress and verifyAddress refuse
\* a string that does not decode to 25 bytes or whose last 4 bytes are not the
\* checksum of the first 21: the first two return no script hash for it, and
\* verifyAddress does not return true.
C11_AddressDecodeRejects ==
    (mode = "wallet" /\ wCall.op \in { "addressToScriptHash", "getScriptHashFromAddress",
                                        "verifyAddress" }
        /\ wCall.from = "handed" /\ ~WellFormedAddress) =>
            /\ wCall.ret.t # "string"
            /\ wCall.ret.t = "boolean" => ~wCall.ret.b

\* verifyAddress alone keeps to C11: it returns false for an address with a
\* wrong checksum or a wrong length
C11_VerifyAddressRejects ==
    (mode = "wallet" /\ wCall.op = "verifyAddress" /\ ~WellFormedAddress) =>
        wCall.ret = [t |-> "boolean", b |-> FALSE] \/ wCall.ret = JsThrown

\* the first byte of an encoded key is 0x02 or 0x03
CompressedPrefix(publicKeyEncoded) ==
    LET b == hexstring2ab(publicKeyEncoded)
    IN b # <<>> /\ b[1] \in {2, 3}

\* the key is 33 bytes and the y-coordinate reconstructed from its abscissa
\* is even under 0x02, odd under 0x03
ParityMatches(publicKeyEncoded) ==
    LET b == hexstring2ab(publicKeyEncoded)
    IN /\ Len(b) = 33
       /\ pointFromX(b[1] = 3, HexMod(ab2hexstring(Tail(b)), CurveP)).y % 2 = b[1] % 2

\* C12: verifyPublicKeyEncoded returns true, and getAccountFromPublicKey an
\* Account, only for a key whose first byte is 0x02 or 0x03 and whose
\* reconstructed y-coordinate has the parity of that byte; for every other
\* key verifyPublicKeyEncoded returns false or throws and
\* getAccountFromPublicKey returns no Account.
C12_PublicKeyValidation ==
    /\ (mode = "wallet" /\ wCall.op = "verifyPublicKeyEncoded") =>
          LET good == CompressedPrefix(wCall.arg) /\ ParityMatches(wCall.arg)
          IN /\ wCall.ret = [t |-> "boolean", b |-> TRUE] => good
             /\ ~good => (wCall.ret = [t |-> "boolean", b |-> FALSE] \/ wCall.ret = JsThrown)
    /\ (mode = "wallet" /\ wCall.op = "getAccountFromPublicKey") =>
          LET good == CompressedPrefix(wCall.arg) /\ ParityMatches(wCall.arg)
          IN /\ wCall.ret.t = "object" => good
             /\ ~good => wCall.ret.t # "object"

\* a key with the first byte 0x04 has been refused by verifyPublicKeyEncoded
\* although the y-coordinate of its abscissa is even
C12_Witness ==
    /\ mode = "wallet" /\ wCall.op = "verifyPublicKeyEncoded"
    /\ wCall.kind = "uncompressed"
    /\ hexstring2ab(wCall.arg)[1] = 4 /\ Len(hexstring2ab(wCall.arg)) = 33
    /\ wCall.ret = [t |-> "boolean", b |-> FALSE]

\* the private key multiplies G to a point of the curve
ValidPrivateKey == ~PointMul(CurveG, HexMod(ab2hexstring(wKey), CurveN)).inf

\* the public key, program hash and address that belong to the private key:
\* the encoded point k G, the hash of its wallet script, and the base58check
\* of the version 23 and that hash
DocumentedAccount ==
    LET publicKeyEncoded ==
            ab2hexstring(getEncoded(PointMul(CurveG, HexMod(ab2hexstring(wKey), CurveN))))
        programHash == RIPEMD160(SHA256(createChainLineWalletScript(publicKeyEncoded)))
    IN [publicKeyEncoded |-> publicKeyEncoded,
        programHash |-> programHash,
        address |-> base58encode(WithChecksum(<<23>> \o hexstring2ab(programHash)))]

\* the Account has the public key, program hash and address of the private key
AgreesWithKey(account) ==
    /\ account.t = "object"
    /\ account.publicKeyEncoded = DocumentedAccount.publicKeyEncoded
    /\ account.programHash = DocumentedAccount.programHash
    /\ account.address = DocumentedAccount.address

\* C14: for a valid private key k, getAccountFromWIFKey of its WIF string,
\* getAccountFromPrivateKey(k) and getAccountFromPublicKey of its encoded
\* public key return Accounts with one publicKeyEncoded, programHash and
\* address; the first two have privateKey = k (in hex).
C14_ConstructorsAgree ==
    (mode = "wallet" /\ ValidPrivateKey) =>
        /\ (wCall.op = "getAccountFromWIFKey" /\ wWIF.st = "encoded") =>
              /\ AgreesWithKey(wCall.ret)
              /\ wCall.ret.privateKey = JsString(ab2hexstring(wKey))
        /\ (wCall.op = "getAccountFromPrivateKey" /\ wCall.arg = ab2hexstring(wKey)) =>
              /\ AgreesWithKey(wCall.ret)
              /\ wCall.ret.privateKey = JsString(ab2hexstring(wKey))
        /\ (wCall.op = "getAccountFromPublicKey" /\ wCall.kind = "own") =>
              AgreesWithKey(wCall.ret)

\* getAccountFromWIFKey has returned, for the WIF string of a key with a high
\* first byte, the Account that getAccountFromPublicKey returns for its public key
C14_Witness ==
    /\ mode = "wallet" /\ wCall.op = "getAccountFromWIFKey" /\ wWIF.st = "encoded"
    /\ wKey[1] = 200 /\ wCall.ret.t = "object"
    /\ LET other == getAccountFromPublicKey(wCall.ret.publicKeyEncoded, [t |-> "undefined"])
       IN other.t = "object" /\ other.address = wCall.ret.address

\* C20: the script generateWalletScript returns for the public key of an
\* Account is, byte for byte, the script createChainLineWalletScript returns
\* for it, the one whose hash is the programHash of the Account and that
\* signTransaction attaches as the verification script; and the hub script
\* hash it holds is Constants.HUB_SCRIPT_HASH.
C20_OneVerificationScript ==
    (mode = "wallet" /\ wCall.op = "generateWalletScript") =>
        /\ wCall.ret = createChainLineWalletScript(wCall.arg)
        /\ getHash(wCall.ret) = wCall.account.programHash

\* C15: getTransactionHash(tx) is the double SHA256 of the transaction
\* serialized without its witnesses, its 32 bytes reversed; so it is the hash
\* the transaction had before signTransaction was called on it, however many
\* witnesses it holds now.
C15_HashOfUnsignedForm ==
    (mode = "tx" /\ txCall.op = "getTransactionHash") =>
        LET unsigned == [txCall.tx EXCEPT !.scripts = <<>>]
        IN /\ txCall.ret = ReverseBytes(SHA256(SHA256(DocumentedUnsigned(txCall.tx))))
           /\ Len(txCall.ret) = 64
           /\ txCall.ret = getTransactionHash(unsigned)

\* the hash of a transaction has been taken after signTransaction was called
\* on it twice
C15_Witness ==
    /\ mode = "tx" /\ txCall.op = "getTransactionHash"
    /\ Len(log) = 2 /\ Len(txCall.tx.scripts) = 2
    /\ serializeTransaction(txCall.tx, TRUE) # serializeTransaction(txCall.tx, FALSE)

\* C13: the Account getAccountFromPublicKey makes of a public key alone has
\* no privateKey, and signTransaction called with that absent key throws: it
\* returns no transaction and the transaction it was handed holds the
\* witnesses it held, no more.
C13_SigningWithoutKeyFails ==
    /\ (mode = "txerr" /\ wCall.op = "getAccountFromPublicKey" /\ wCall.ret.t = "object") =>
          wCall.ret.privateKey = [t |-> "undefined"]
    /\ (mode = "txerr" /\ txCall.op = "signTransaction"
            /\ txCall.privateKey.t = "undefined") =>
          /\ txCall.st = "thrown"
          /\ heap = txCall.before

\* signTransaction has thrown on a Contract transaction for the absent key
\* of an Account made of a public key alone
C13_Witness ==
    /\ mode = "txerr" /\ txCall.op = "signTransaction" /\ txCall.st = "thrown"
    /\ wCall.op = "getAccountFromPublicKey" /\ wCall.ret.t = "object"
    /\ txCall.privateKey = wCall.ret.privateKey
    /\ heap[1].type = Num(ContractTransaction) /\ heap[1].scripts = <<>>

\* the type is one of the three kinds of transaction
KnownType(type) ==
    type \in { Num(ClaimTransaction), Num(ContractTransaction), Num(InvocationTransaction) }

\* C18: deserializeTransaction throws, and makes no transaction, for a string
\* whose first byte is not the type of one of the three kinds, and
\* serializeTransaction throws, and returns no string, for an object whose
\* type is not.
C18_UnknownTypeRejected ==
    /\ (mode = "txerr" /\ txCall.op = "deserializeTransaction"
            /\ ~KnownType(parseInt16(Substr(txCall.data, 0, 2)))) =>
          /\ txCall.st = "thrown"
          /\ heap = txCall.before
    /\ (mode = "txerr" /\ txCall.op = "serializeTransaction" /\ ~KnownType(txCall.tx.type)) =>
          txCall.st = "thrown"

\* deserializeTransaction has thrown on a string that starts with the byte
\* 0x81 and goes on as a Contract transaction with an output does
C18_Witness ==
    /\ mode = "txerr" /\ txCall.op = "deserializeTransaction" /\ txCall.st = "thrown"
    /\ SubSeq(txCall.data, 1, 2) = <<8, 1>>
    /\ Len(heap[1].outputs) = 1
    /\ deserializeTransaction(<<8, 0>> \o Substring(txCall.data, 2)).st = "ok"

\* ECDSA verification of the signature (r, s) under the public key Q for the
\* digest e: the abscissa of (e / s) G + (r / s) Q is r modulo the order
EcdsaVerifies(e, r, sv, Q) ==
    /\ r \in 1..(CurveN - 1) /\ sv \in 1..(CurveN - 1)
    /\ LET w == ModInv(sv, CurveN)
           X == PointAdd(PointMul(CurveG, (e * w) % CurveN), PointMul(Q, (r * w) % CurveN))
       IN ~X.inf /\ X.x % CurveN = r

\* the digest of a message as ECDSA takes it
MessageDigest(message) == HexMod(SHA256(message), CurveN)

\* the message with bit b of its i-th hex digit flipped
FlipBit(message, i, b) ==
    [message EXCEPT ![i] = IF (@ \div (2 ^ b)) % 2 = 1 THEN @ - 2 ^ b ELSE @ + 2 ^ b]

\* the digests of the messages that differ from message in one bit
FlippedDigests(message) ==
    { MessageDigest(FlipBit(message, i, b)) : i \in 1..Len(message), b \in 0..3 }

\* the point an encoded public key stands for
DecodedPublicKey(publicKeyEncoded) ==
    LET b == hexstring2ab(publicKeyEncoded)
    IN pointFromX(b[1] = 3, HexMod(ab2hexstring(Tail(b)), CurveP))

\* the other digest a signature (r, s) of the digest e by the key d fits: the
\* one that leads verification to the opposite point, of the same abscissa
OppositeDigest(e, r, d) == (2 * CurveN * CurveN - e - 2 * r * d) % CurveN

\* the abscissas of curve points that r stands for modulo the order
AbscissasOf(r) ==
    { x \in 0..(CurveP - 1) : x % CurveN = r /\ \E y \in 0..(CurveP - 1) : OnCurve(x, y) }

\* C19: the signature signTransaction puts into the witness verifies, by
\* ECDSA, under the public key of getAccountFromPrivateKey(privateKey) for
\* the message serializeTransaction(tx, false); and, r standing for one
\* abscissa, it does not verify for that message with one bit flipped,
\* unless the flipped message has a digest the signature fits as well (the
\* digest of the message itself or the one opposite to it, which takes a
\* collision of the hash).
C19_SignatureVerifies ==
    (mode = "verify" /\ txCall.op = "signTransaction") =>
        LET tx == heap[txCall.transaction]
            message == DocumentedUnsigned(tx)
            signature == Substring(tx.scripts[Len(tx.scripts)].invocationScript, 2)
            r == HexMod(SubSeq(signature, 1, 64), Limb)
            sv == HexMod(SubSeq(signature, 65, 128), Limb)
            account == getAccountFromPrivateKey(JsString(txCall.privateKey))
            Q == DecodedPublicKey(account.publicKeyEncoded)
            e == MessageDigest(message)
            fitting == { e, OppositeDigest(e, r, PrivateScalar(txCall.privateKey)) }
        IN /\ Len(signature) = 128
           /\ EcdsaVerifies(e, r, sv, Q)
           /\ Cardinality(AbscissasOf(r)) = 1 =>
                 \A flipped \in FlippedDigests(message) \ fitting :
                    ~EcdsaVerifies(flipped, r, sv, Q)

\* a signature over a transaction with an output has been made, its r
\* stands for one abscissa, and the flips of the bits of its message lead
\* to more than a hundred digests
C19_Witness ==
    /\ mode = "verify" /\ txCall.op = "signTransaction"
    /\ Len(heap[1].outputs) = 1
    /\ Cardinality(FlippedDigests(DocumentedUnsigned(heap[1]))) > 100
    /\ Cardinality(AbscissasOf(HexMod(SubSeq(heap[1].scripts[1].invocationScript, 3, 66), Limb))) = 1

\* a <= b for two numbers that hold integers
SignedLessEq(a, b) ==
    IF IsNegative(a) /\ ~IsNegative(b) THEN TRUE
    ELSE IF ~IsNegative(a) /\ IsNegative(b) THEN FALSE
    ELSE IF IsNegative(a) THEN ~DigitsLess(a.int, b.int)
    ELSE ~DigitsLess(b.int, a.int)

\* the integer x + D, exactly
PlusD(x) ==
    IF ~IsNegative(x) THEN SignedNum(FALSE, DigitsAdd(x.int, D))
    ELSE IF DigitsLess(x.int, NatDigits(D))
    THEN SignedNum(FALSE, NatDigits(D - DigitsValueCapped(x.int, 0, D)))
    ELSE SignedNum(TRUE, DigitsSub(x.int, D))

\* c is the smallest multiple of 10^8 that is not below v
SmallestMultipleFrom(c, v) ==
    /\ DigitsDivMod(c.int, D).rem = 0
    /\ SignedLessEq(v, c)
    /\ ~SignedLessEq(PlusD(v), c)

\* the integers a number holds exactly are those up to 2^53
ExactInteger(x) == ~DigitsLess(Pow2(53), x.int)

\* C16, as stated: for every integer amount v of a Fixed8, fixed8GasCeil(v)
\* is the smallest multiple of 10^8 that is >= v.
C16_CeilOfEveryFixed8 ==
    (mode = "gas" /\ gCall.op = "fixed8GasCeil") => SmallestMultipleFrom(gCall.ret, gCall.arg)

\* C16, amended: for every integer amount v up to 2^53 in magnitude,
\* fixed8GasCeil(v) is the smallest multiple of 10^8 that is >= v (0 for 0),
\* fixed8GasCeil leaves it as it is, and gasCostCeil returns it divided by
\* 10^8: 1 for 0.30000001 and for 1.0, 0 for 0.
C16_GasCeil ==
    (mode = "gas" /\ gCall.op # "none" /\ ExactInteger(gCall.arg)) =>
        /\ gCall.op = "fixed8GasCeil" =>
              /\ SmallestMultipleFrom(gCall.ret, gCall.arg)
              /\ fixed8GasCeil(gCall.ret) = gCall.ret
              /\ gCall.arg = Num(0) => gCall.ret = Num(0)
        /\ gCall.op = "gasCostCeil" =>
              /\ SmallestMultipleFrom(fixed8GasCeil(gCall.arg), gCall.arg)
              /\ DigitsDivMod(fixed8GasCeil(gCall.arg).int, D) =
                    [quot |-> Repeat(0, Len(fixed8GasCeil(gCall.arg).int) - Len(gCall.ret.int))
                              \o gCall.ret.int,
                     rem |-> 0]
              /\ IsNegative(gCall.ret) = IsNegative(fixed8GasCeil(gCall.arg))
              /\ gCall.arg \in {Num(30000001), Num(D)} => gCall.ret = Num(1)
              /\ gCall.arg = Num(0) => gCall.ret = Num(0)

\* gasCostCeil has been called for 2.30000001 and returned 3
C16_Witness ==
    /\ mode = "gas" /\ gCall.op = "gasCostCeil"
    /\ gCall.arg = Num(2 * D + 30000001) /\ gCall.ret = Num(3)

\* the 16 hex digits of a whole number of the signed 64-bit range, in two's
\* complement, the most significant first
TwosComplement64(x) ==
    LET padded == Repeat(0, 16 - Len(x.int)) \o x.int
    IN IF ~IsNegative(x) THEN padded
       ELSE DigitsAdd([i \in 1..16 |-> 15 - padded[i]], 1)

\* C17: num2fixed8(x) is 16 hex characters, the signed 64-bit integer
\* x * 10^8 with its 8 bytes in little-endian order, for negative x and near
\* the ends of the range too, and fixed82num gives x back from it.
C17_SignedFixed8 ==
    (mode = "fixed8" /\ cHex.st = "ok") =>
        /\ Len(cHex.val) = 16
        /\ \A i \in 1..Len(cHex.val) : cHex.val[i] \in 0..15
        /\ cHex.val = ReverseBytes(TwosComplement64(cNum))
        /\ cBack.st = "ok" => cBack.val = cNum

\* C21: deserializeTransaction of what serializeTransaction(tx, true) wrote
\* makes, without an error, a transaction with the witnesses of tx in their
\* order (none for a transaction without witnesses), and serializing that
\* transaction writes the same string again.
C21_WitnessesOverTheWire ==
    /\ (mode = "wire" /\ txCall.op = "deserializeTransaction") =>
          /\ txCall.st = "ok"
          /\ heap[txCall.ret].scripts = txCall.of.scripts
    /\ (mode = "wire" /\ txCall.op = "serializeTransactionAgain") =>
          /\ txCall.st = "ok"
          /\ txCall.ret = txCall.data

\* what holds of C21: a transaction without attributes and with at most one
\* witness is read back with its witnesses and written again as it was
C21_OneWitnessNoAttributes ==
    /\ (mode = "wire" /\ txCall.op = "deserializeTransaction"
           /\ Len(txCall.of.scripts) <= 1) =>
          /\ txCall.st = "ok"
          /\ heap[txCall.ret].scripts = txCall.of.scripts
    /\ (mode = "wire" /\ txCall.op = "serializeTransactionAgain"
           /\ heap[1].attributes = <<>>) =>
          /\ txCall.st = "ok"
          /\ txCall.ret = txCall.data

\* C30: the witness signTransaction(tx, k) appends has a verification script
\* whose hash RIPEMD160(SHA256(script)) is the programHash of
\* getAccountFromPrivateKey(k).
C30_WitnessAuthorizesSigner ==
    (mode = "wire" /\ txCall.op = "signTransaction") =>
        LET scripts == heap[txCall.transaction].scripts
            account == getAccountFromPrivateKey(JsString(txCall.privateKey))
        IN /\ account.t = "object"
           /\ RIPEMD160(SHA256(scripts[Len(scripts)].verificationScript)) = account.programHash

\* a transaction with an input has been signed by two different keys
C30_Witness ==
    /\ mode = "wire" /\ txCall.op = "signTransaction"
    /\ Len(heap[1].inputs) = 1 /\ Len(heap[1].scripts) = 2
    /\ log[1].privateKey # log[2].privateKey
    /\ heap[1].scripts[1].verificationScript # heap[1].scripts[2].verificationScript

\* the byte written at the given offset (in characters) of a hex string
ByteAt(hex, offset) == hex[offset + 1] * 16 + hex[offset + 2]

\* C27: in what addContract returns, txData + '01' + '41' + '40' + sign +
\* '23' + script, each length byte is the length in bytes of what follows it:
\* '40' of the signature, '41' of the signature with its length byte, '23' of
\* the script createChainLineWalletScript(publicKeyEncoded) builds.
C27_AddContractLengths ==
    (mode = "wire" /\ txCall.op = "addContract") =>
        LET rest == Substring(txCall.ret, Len(txCall.txData))
            script == createChainLineWalletScript(txCall.publicKeyEncoded)
            signChars == Len(txCall.sign)
        IN /\ SubSeq(txCall.ret, 1, Len(txCall.txData)) = txCall.txData
           /\ ByteAt(rest, 0) = 1
           /\ ByteAt(rest, 4) * 2 = signChars
           /\ SubSeq(rest, 7, 6 + signChars) = txCall.sign
           /\ ByteAt(rest, 2) = 1 + ByteAt(rest, 4)
           /\ Substring(rest, 8 + signChars) = script
           /\ ByteAt(rest, 6 + signChars) * 2 = Len(script)

\* what holds of C27: the layout, and the length bytes of the signature
C27_SignatureLengths ==
    (mode = "wire" /\ txCall.op = "addContract") =>
        LET rest == Substring(txCall.ret, Len(txCall.txData))
            signChars == Len(txCall.sign)
        IN /\ ByteAt(rest, 0) = 1
           /\ ByteAt(rest, 4) * 2 = signChars
           /\ ByteAt(rest, 2) = 1 + ByteAt(rest, 4)
           /\ ByteAt(rest, 6 + signChars) = 35
           /\ Substring(rest, 8 + signChars) = createChainLineWalletScript(txCall.publicKeyEncoded)
           /\ Len(createChainLineWalletScript(txCall.publicKeyEncoded)) = 2 * 671

\* the characters of a string from the byte at offset on, for size bytes
BytesFrom(str, offset, size) == SubSeq(str, 2 * offset + 1, 2 * (offset + size))

\* a number read from bytes in little-endian order, 0 for none
LittleEndianValue(hex) ==
    IF StripLeadingZeros(ReverseBytes(hex)) = <<0>> THEN Num(0)
    ELSE [int |-> StripLeadingZeros(ReverseBytes(hex)), frac |-> <<>>]

\* C28: parseDemandHex returns null for a string that is neither DEMAND_SIZE
\* nor DEMAND_SIZE + TIMESTAMP_SIZE bytes long, parseTravelHex for one that is
\* neither TRAVEL_SIZE nor TRAVEL_SIZE + TIMESTAMP_SIZE bytes long; of an
\* accepted string the fields are cut in the order and sizes documented
\* (demand: expiry 4, itemValue 5, owner 20, repRequired 2, itemSize 1,
\* infoBlob 128; travel: expiry 4, repRequired 2, carrySpace 1, owner 20),
\* which takes DEMAND_SIZE or TRAVEL_SIZE bytes; and a parser returns the
\* object it made when it is handed it.
C28_ParsersCutFixedFields ==
    (mode = "parse" /\ cBack.op # "none") =>
        /\ (cBack.op = "parseDemandHex" /\ cBack.arg.t = "string") =>
             IF Len(cBack.arg.s) \notin {320, 328} THEN cBack.ret = JsNull
             ELSE /\ cBack.ret.t = "object"
                  /\ cBack.ret.expiry = LittleEndianValue(BytesFrom(cBack.arg.s, 0, 4))
                  /\ cBack.ret.itemValue = LittleEndianValue(BytesFrom(cBack.arg.s, 4, 5))
                  /\ cBack.ret.owner = BytesFrom(cBack.arg.s, 9, 20)
                  /\ cBack.ret.repRequired = LittleEndianValue(BytesFrom(cBack.arg.s, 29, 2))
                  /\ cBack.ret.itemSize = LittleEndianValue(BytesFrom(cBack.arg.s, 31, 1))
                  /\ cBack.ret.infoBlob = hexstring2ab(BytesFrom(cBack.arg.s, 32, 128))
                  /\ Len(cBack.arg.s) - Len(cBack.ret.left) = 2 * 160
        /\ (cBack.op = "parseTravelHex" /\ cBack.arg.t = "string") =>
             IF Len(cBack.arg.s) \notin {54, 62} THEN cBack.ret = JsNull
             ELSE /\ cBack.ret.t = "object"
                  /\ cBack.ret.expiry = LittleEndianValue(BytesFrom(cBack.arg.s, 0, 4))
                  /\ cBack.ret.repRequired = LittleEndianValue(BytesFrom(cBack.arg.s, 4, 2))
                  /\ cBack.ret.carrySpace = LittleEndianValue(BytesFrom(cBack.arg.s, 6, 1))
                  /\ cBack.ret.owner = BytesFrom(cBack.arg.s, 7, 20)
                  /\ Len(cBack.arg.s) - Len(cBack.ret.left) = 2 * 27
        /\ (cBack.op = "parseDemandHex" /\ cBack.arg.t = "object"
               /\ "isDemand" \in DOMAIN cBack.arg) => cBack.ret = cBack.arg
        /\ (cBack.op = "parseTravelHex" /\ cBack.arg.t = "object"
               /\ "isTravel" \in DOMAIN cBack.arg) => cBack.ret = cBack.arg

\* a Demand stored with its timestamp has been parsed, its fields are not
\* all alike, and the Demand made of it has been parsed again
C28_Witness ==
    /\ mode = "parse" /\ cBack.op = "parseDemandHex"
    /\ cBack.arg.t = "object" /\ cBack.ret = cBack.arg
    /\ Len(cHex.s) = 328 /\ cBack.ret.repRequired # cBack.ret.itemSize
    /\ Len(cBack.ret.left) = 8

\* the requests of the call p, in the order they were issued
RequestsOf(p) == SelectSeq(requests, LAMBDA r : r.by = p)

\* the kinds of the requests of the call p, in order
KindsOf(p) == [i \in 1..Len(RequestsOf(p)) |-> RequestsOf(p)[i].kind]

\* how many requests of a kind the call p has issued
CountOf(p, kind) ==
    Cardinality({ i \in 1..Len(requests) : requests[i].by = p /\ requests[i].kind = kind })

\* C29: a sending operation (doSendAsset, doMintTokens, doClaimAllGas,
\* openDemand, openTravel, setFundsPaidToRecipientTxHash) handed a WIF key
\* for which getPrivateKeyFromWIF reports failure fails before it issues any
\* request: once it has started it has settled, rejected, and has fetched no
\* balance and posted no invokescript and no sendrawtransaction.
C29_InvalidWIFStopsBeforeRequests ==
    mode = "operations" =>
        \A p \in DOMAIN calls :
            (calls[p].pc # "called" /\ calls[p].op # "doTestNotify"
                /\ getPrivateKeyFromWIF(calls[p].wif).t # "string")
            => /\ RequestsOf(p) = <<>>
               /\ calls[p].pc = "done" /\ calls[p].ret = Rejected

\* what does hold of a key that is refused: the call never posts a
\* sendrawtransaction, and a call that fetched is rejected after the answer
C29_InvalidWIFNeverSends ==
    mode = "operations" =>
        \A p \in DOMAIN calls :
            getPrivateKeyFromWIF(calls[p].wif).t # "string"
            => /\ CountOf(p, "sendrawtransaction") = 0
               /\ (calls[p].pc = "done" /\ KindsOf(p) \in {<<"balance">>, <<"claims">>})
                    => calls[p].ret = Rejected

\* C22: openDemand and openTravel of hub-1.1.  With sendTx = false a call
\* fetches no balance and posts no sendrawtransaction at any time, posts one
\* invokescript and no second one, and returns {result: true, gasConsumed,
\* success} when the state of the answer starts with 'HALT' and
\* {result: false} when it does not.  With sendTx = true a call posts no
\* invokescript at any time, fetches the balance first and posts one
\* sendrawtransaction after it and no second one, and returns the answer.
\* (A call handed a string that is not base58 throws before any of it.)
C22_LocalOrSentInvocation ==
    mode = "operations" =>
        \A p \in DOMAIN calls :
            LET call == calls[p]
                res == PropertyOf(call.invoked, "result")
            IN (call.revision = "hub-1.1" /\ call.op \in {"openDemand", "openTravel"}) =>
                IF ~call.sendTx
                THEN /\ CountOf(p, "balance") = 0
                     /\ CountOf(p, "sendrawtransaction") = 0
                     /\ CountOf(p, "invokescript") <= 1
                     /\ (call.pc \in {"posted", "done"} /\ call.account.t # "undefined")
                            => KindsOf(p) = <<"invokescript">>
                     /\ (call.pc = "done" /\ call.ret.st = "ok") =>
                            /\ KindsOf(p) = <<"invokescript">>
                            /\ IF Len(res.state) >= 4
                                    /\ SubSeq(res.state, 1, 4) = <<"H", "A", "L", "T">>
                               THEN /\ call.ret.val.result = TRUE
                                    /\ call.ret.val.gasConsumed = res.gas_consumed
                                    /\ "success" \in DOMAIN call.ret.val
                               ELSE call.ret.val = [t |-> "object", result |-> FALSE]
                ELSE /\ CountOf(p, "invokescript") = 0
                     /\ KindsOf(p) \in {<<>>, <<"balance">>, <<"balance", "sendrawtransaction">>}
                     /\ (call.pc # "called" /\ call.account.t # "undefined")
                            => (KindsOf(p) # <<>> /\ KindsOf(p)[1] = "balance")
                     /\ (call.pc = "done" /\ call.ret.st = "ok") =>
                            /\ KindsOf(p) = <<"balance", "sendrawtransaction">>
                            /\ call.ret.val = call.sent

\* openDemand of hub-1.1 has returned from a local invocation that halted
\* with a value on the stack
C22_Witness ==
    /\ mode = "operations"
    /\ calls[1].revision = "hub-1.1" /\ calls[1].op = "openDemand" /\ ~calls[1].sendTx
    /\ calls[1].pc = "done" /\ calls[1].ret.st = "ok"
    /\ calls[1].ret.val.result = TRUE
    /\ calls[1].ret.val.success = JsBoolean(TRUE)
    /\ KindsOf(1) = <<"invokescript">>

\* C23: every sendrawtransaction request of a sending operation is posted
\* after signTransaction has returned the transaction of the call, and the
\* string sent is the serialization of that transaction with its witnesses,
\* of which there is at least one: the unsigned bytes, the count and the
\* witnesses.
C23_SentAfterSigning ==
    mode = "operations" =>
        \A i \in 1..Len(requests) :
            requests[i].kind = "sendrawtransaction" =>
                LET call == calls[requests[i].by]
                    signedTx == heap[call.signedTx]
                    unsigned == serializeTransaction(signedTx, FALSE)
                IN /\ call.signedTx # 0 /\ call.signedTx = call.unsignedTx
                   /\ Len(signedTx.scripts) >= 1
                   /\ requests[i].arg = serializeTransaction(signedTx, TRUE)
                   /\ Len(requests[i].arg) > Len(unsigned) + 2
                   /\ SubSeq(requests[i].arg, 1, Len(unsigned)) = unsigned
                   /\ ByteAt(requests[i].arg, Len(unsigned)) = Len(signedTx.scripts)

\* doClaimAllGas has posted its sendrawtransaction
C23_Witness ==
    /\ mode = "operations"
    /\ calls[1].op = "doClaimAllGas"
    /\ KindsOf(1) = <<"claims", "sendrawtransaction">>
    /\ RequestsOf(1)[2].arg = calls[1].hexTx

\* C24: a sending operation posts at most one sendrawtransaction, whatever
\* the answers are.
C24_NoRetry ==
    mode = "operations" =>
        \A p \in DOMAIN calls : CountOf(p, "sendrawtransaction") <= 1

\* openDemand of hub-0.3 has returned after an answer whose result is false
C24_Witness ==
    /\ mode = "operations"
    /\ calls[1].revision = "hub-0.3" /\ calls[1].op = "openDemand"
    /\ calls[1].pc = "done"
    /\ calls[1].sent = [result |-> JsBoolean(FALSE)]
    /\ CountOf(1, "sendrawtransaction") = 1

\* str is the little-endian hex of the number: as few bytes as hold it,
\* the least significant first
IsLittleEndianHexOf(str, number) ==
    /\ Len(str) >= 2 /\ Len(str) % 2 = 0
    /\ LittleEndianValue(str) = number
    /\ Len(str) > 2 => SubSeq(str, Len(str) - 1, Len(str)) # <<0, 0>>

\* C26: openDemand and openTravel of hub-0.3.  After an answer to
\* sendrawtransaction whose result is falsy the call has returned false and
\* posts no invokescript; it returns false in no other case.  After an
\* answer whose result is truthy it posts the invokescript of getTimestamp,
\* after the send, and what it returns then is {shortId, longId} with
\* shortId the little-endian hex of blockTime, the little-endian hex of
\* expiry and '01' (openDemand) or '02' (openTravel), and longId shortId
\* followed by the city pair hash.
C26_TrackingIds ==
    mode = "operations" =>
        \A p \in DOMAIN calls :
            LET call == calls[p]
                ids == call.ret.val
                suffix == IF call.op = "openDemand" THEN <<0, 1>> ELSE <<0, 2>>
            IN (call.revision = "hub-0.3" /\ call.op \in {"openDemand", "openTravel"}) =>
                /\ (call.sent # NoValue /\ Falsy(PropertyOf(call.sent, "result"))) =>
                        /\ call.pc = "done" /\ call.ret = Ok(JsBoolean(FALSE))
                        /\ CountOf(p, "invokescript") = 0
                /\ call.ret = Ok(JsBoolean(FALSE)) =>
                        (call.sent # NoValue /\ Falsy(PropertyOf(call.sent, "result")))
                /\ (call.sent # NoValue /\ ~Falsy(PropertyOf(call.sent, "result"))
                        /\ call.pc \in {"posted", "done"}) =>
                        KindsOf(p) = <<"balance", "sendrawtransaction", "invokescript">>
                /\ CountOf(p, "invokescript") > 0 => call.sent # NoValue
                /\ (call.pc = "done" /\ call.ret.st = "ok" /\ call.ret # Ok(JsBoolean(FALSE))) =>
                        /\ \E i \in 1..Len(ids.shortId) :
                              /\ IsLittleEndianHexOf(SubSeq(ids.shortId, 1, i), call.blockTime)
                              /\ IsLittleEndianHexOf(
                                    SubSeq(ids.shortId, i + 1, Len(ids.shortId) - 2), call.expiry)
                        /\ SubSeq(ids.shortId, Len(ids.shortId) - 1, Len(ids.shortId)) = suffix
                        /\ ids.longId = ids.shortId
                                \o RIPEMD160(HUB_SCRIPT_HASH \o PickUpCity \o DropOffCity)

\* openTravel of hub-0.3 has returned the identifiers of a travel whose
\* block time and expiry take two bytes each
C26_Witness ==
    /\ mode = "operations"
    /\ calls[1].revision = "hub-0.3" /\ calls[1].op = "openTravel"
    /\ calls[1].pc = "done" /\ calls[1].ret.st = "ok"
    /\ calls[1].ret # Ok(JsBoolean(FALSE))
    /\ calls[1].blockTime = Num(1516) /\ calls[1].expiry = Num(291)
    /\ Len(calls[1].ret.val.shortId) = 10

\* the string the call would send if it ran alone, the only transaction of
\* the heap being its own
SignedAlone(call) ==
    signAndSerialize(<<createTransaction(call.op, call.account)>>, 1,
                     call.account.privateKey.s).hexTx

\* C25: of two operations run side by side, their steps interleaved in any
\* order, each with the key of its own account: no step changes the
\* Constants object or a Transaction object made earlier (a call writes the
\* transaction it makes, in the step that makes it, and no other), and the
\* string a call has signed, and the one it posts, is the string the same
\* call signs when it runs alone.
C25_ConcurrentCallsIndependent ==
    /\ [](mode = "concurrent" =>
            /\ hubConstants = ConstantsOf(calls[1].revision)
            /\ \A i \in 1..Len(requests) :
                    requests[i].kind = "sendrawtransaction"
                        => requests[i].arg = calls[requests[i].by].hexTx)
    /\ [][mode = "concurrent" =>
            /\ hubConstants' = hubConstants
            /\ Len(heap') >= Len(heap)
            /\ \A i \in 1..Len(heap) : heap'[i] = heap[i]
            /\ \A p \in DOMAIN calls :
                    calls'[p] # calls[p] =>
                        /\ \A q \in DOMAIN calls \ {p} : calls'[q] = calls[q]
                        /\ calls'[p].hexTx # calls[p].hexTx =>
                                (calls[p].hexTx = <<>>
                                    /\ calls'[p].hexTx = SignedAlone(calls'[p]))]_vars

\* both calls have signed a transaction and one has posted it, the other
\* having started in between
C25_Witness ==
    /\ mode = "concurrent"
    /\ calls[1].hexTx # <<>> /\ calls[2].hexTx # <<>>
    /\ calls[1].hexTx # calls[2].hexTx
    /\ Len(heap) = 2
    /\ Len(requests) >= 3
    /\ requests[1].by = 1 /\ requests[2].by = 2 /\ requests[3].by = 1
    /\ requests[3].kind = "sendrawtransaction"
===========================================================================
